---------------------------- MODULE Spec2Model ----------------------------
(***************************************************************************)
(* Model of the concurrent streaming pipeline of local-llm:                *)
(*   - SafeQueue<T> (include/async_pipeline.h), exercised by client        *)
(*     threads that call its operations in any interleaving (Spec,         *)
(*     FairSpec);                                                          *)
(*   - BaseProcessor and the STT / LLM / TTS / Audio workers               *)
(*     (src/async_processors.cpp) under PipelineManager                    *)
(*     (include/pipeline_manager.h): the pipeline while it is stopped      *)
(*     (ShutdownSpec, ShutdownFairSpec, ObservedSpec), while control       *)
(*     signals reach the running workers (ControlSpec, ControlFairSpec),   *)
(*     while it is started (StartSpec), and while the user barges in on    *)
(*     an answer (BargeSpec);                                              *)
(*   - the chunker of the LLM backends (src/llm_llama.cpp,                 *)
(*     src/llm_rknn.cpp), which cuts the token stream of one generation    *)
(*     into the chunks handed to the callback (ChunkerSpec);               *)
(*   - PipelineManager::process_text_input on the pipeline in text-only    *)
(*     mode (TextSpec);                                                    *)
(*   - one BaseProcessor under concurrent calls of start() and stop()      *)
(*     (LifecycleSpec);                                                    *)
(*   - the phoneme ring in shared memory, written by                       *)
(*     TTSProcessor::send_phoneme_data and read by the face viewer         *)
(*     (RingSpec);                                                         *)
(*   - the parts of STTProcessor::process and TTSProcessor::process that   *)
(*     follow the backend call, with fade_and_trim_tail_ms (FadeSpec);     *)
(*   - workers whose process() throws (ThrowSpec), and workers that are    *)
(*     sent PAUSE and RESUME (PauseSpec);                                  *)
(*   - the client threads of the server mode in process_text_input         *)
(*     (ServerSpec);                                                       *)
(*   - the playback device handle under the TTS thread, the Audio thread   *)
(*     and the thread in stop(), one ALSA call per step (DeviceSpec).      *)
(*                                                                         *)
(* Every critical section guarded by SafeQueue::mutex_ is one atomic step. *)
(* A thread that waits on a condition variable sits in a "wait_*" position *)
(* and moves on only after a notify (or a spurious wake-up, or the expiry  *)
(* of a timed wait) has put it in the matching "ready_*" position, where   *)
(* it re-evaluates the wait predicate under the mutex.                     *)
(***************************************************************************)
EXTENDS Integers, Sequences, FiniteSets, TLC

\* ------------------------------------------------------------------ bounds
\* Capacity of the SafeQueue exercised by the client threads.
Capacity == 2
\* Number of items the client threads enqueue in all (a push is called only
\* while the pushes in progress leave an item number for it).
MaxItems == 4

\* ---------------------------------------------------------------- SafeQueue
\* A SafeQueue: its std::queue, max_size_, the shutdown_ flag, and whether an
\* interrupt flag pointer was given (interrupt_flag_ != nullptr).
SafeQueue(max_size, flagged) ==
    [queue_ |-> <<>>, max_size_ |-> max_size, shutdown_ |-> FALSE,
     interrupt_flag_ |-> flagged]

\* interrupt_flag_ && interrupt_flag_->load()
external_interrupt_requested(q, flag) == q.interrupt_flag_ /\ flag

\* Mutant: an off-by-one in the space test.
NotFullPred_offbyone(q) == Len(q.queue_) <= q.max_size_ \/ q.shutdown_

\* The wait predicate of push and push_blocking.
NotFullPred(q) == Len(q.queue_) < q.max_size_ \/ q.shutdown_

\* The wait predicate of pop and pop_blocking.
NotEmptyPred(q, flag) ==
    q.queue_ # <<>> \/ q.shutdown_ \/ external_interrupt_requested(q, flag)

\* Mutant: the shutdown test after the wait is missing.
PushAllowed_nocheck(q) == TRUE

\* `if (shutdown_) return false;` evaluated after the wait of a push.
PushAllowed(q) == ~q.shutdown_

\* Mutant: queued items are handed out before shutdown is reported.
PopResultOf_drainfirst(q, flag) ==
    IF external_interrupt_requested(q, flag) /\ ~q.shutdown_ THEN "INTERRUPTED"
    ELSE IF q.queue_ # <<>> THEN "SUCCESS"
    ELSE IF q.shutdown_ THEN "SHUTDOWN"
    ELSE "EMPTY"

\* Mutant: the emptiness test comes before the interrupt test.
PopResultOf_emptyfirst(q, flag) ==
    IF q.shutdown_ THEN "SHUTDOWN"
    ELSE IF q.queue_ = <<>> THEN "EMPTY"
    ELSE "SUCCESS"

\* The outcome of a pop once its wait predicate holds (and of try_pop).
PopResultOf(q, flag) ==
    IF q.shutdown_ THEN "SHUTDOWN"
    ELSE IF external_interrupt_requested(q, flag) THEN "INTERRUPTED"
    ELSE IF q.queue_ = <<>> THEN "EMPTY"
    ELSE "SUCCESS"

\* Mutant: the item is put at the front.
Enqueue_front(q, item) == [q EXCEPT !.queue_ = <<item>> \o @]

\* queue_.push(std::move(item))
Enqueue(q, item) == [q EXCEPT !.queue_ = Append(@, item)]

\* queue_.front()
Front(q) == Head(q.queue_)

\* Mutant: front() is read but pop() is not called.
Dequeue_keep(q) == q

\* queue_.pop()
Dequeue(q) == [q EXCEPT !.queue_ = Tail(@)]

\* std::queue<T> empty; queue_.swap(empty);
Swapped(q) == [q EXCEPT !.queue_ = <<>>]

\* shutdown_ = true
ShutdownSet(q) == [q EXCEPT !.shutdown_ = TRUE]

\* ------------------------------------------------------- condition variables
\* notify_one on a condition variable: one of the threads of p that sit in
\* position `from` (if any) moves to position `to`.
NotifyOne(p, from, to) ==
    IF \E w \in DOMAIN p : p[w] = from
    THEN {[p EXCEPT ![w] = to] : w \in {x \in DOMAIN p : p[x] = from}}
    ELSE {p}

\* notify_all: every thread in position `from` moves to position `to`.
NotifyAll(p, from, to) == [w \in DOMAIN p |-> IF p[w] = from THEN to ELSE p[w]]

\* ------------------------------------------------- client threads of a queue
Threads == {"t1", "t2", "t3"}

VARIABLES
    sq,             \* the SafeQueue the client threads share
    interrupt_flag, \* the external std::atomic<bool> the queues point to
    pc,             \* position of each client thread
    op,             \* the operation a waiting client thread is in
    last,           \* the operation that returned in the last step, if one did
    nextItem,       \* the items are numbered in the order they are enqueued
    popped,         \* history: items returned by successful pops, in order
    discarded       \* history: items removed by flush / clear

\* The pipeline: the workers, their channels and the supervisor.
VARIABLES
    queues,         \* text_queue_, response_queue_, audio_output_queue_
    running_,       \* BaseProcessor::running_ of each worker
    control_queue_, \* BaseProcessor::control_queue_: each worker's mailbox
    wpc,            \* position of each worker thread
    work,           \* the message a worker thread holds
    alsa,           \* the playback device: alsa_handle_, drop-and-prepare count
    pm,             \* the thread that owns the PipelineManager: its position
    utter,          \* the utterances are numbered as STT transcribes them
    signals,        \* control signals sent so far from outside the workers
    observed        \* history, where it is kept: the workers inside run() whose
                    \* pop_blocking or push_blocking returned the shutdown outcome

\* One BaseProcessor and the threads that call start() and stop() on it.
VARIABLES
    bp,             \* the BaseProcessor: running_, thread_, mailbox, histories
    lpc,            \* position of each calling thread
    rt              \* position of each thread created to execute run()

\* One LLM backend and the thread that calls process_text_input.
VARIABLES
    llm,            \* the backend inside generate_async: the chunker's state
    client          \* the thread inside PipelineManager::process_text_input

\* The shared-memory phoneme ring of the TTS worker.
VARIABLES
    ring,           \* PhonemeSharedQueue, with the thread inside
                    \* send_phoneme_data and the external viewer
    speech,         \* the chunk TTSProcessor::process got from speak, and
                    \* what it pushed for it
    callers,        \* the client threads of the server inside
                    \* process_text_input
    pcm             \* the playback device and alsa_handle_, with the threads
                    \* that use them

\* The variables of the client threads of one queue.
qvars == <<sq, pc, op, last, nextItem, popped, discarded>>

\* The variables of the pipeline.
pvars == <<queues, running_, control_queue_, wpc, work, alsa, pm, utter, signals,
           observed>>

\* The variables of the single BaseProcessor and its callers.
lvars == <<bp, lpc, rt>>

\* The variables of the LLM backend and of the text client.
gvars == <<llm, client>>

\* The variables of the TTS worker's shared memory.
tvars == <<ring, speech, callers, pcm>>

vars == <<sq, interrupt_flag, pc, op, last, nextItem, popped, discarded,
          queues, running_, control_queue_, wpc, work, alsa, pm, utter, signals,
          observed, bp, lpc, rt, llm, client, ring, speech, callers, pcm>>

IsPush(o) == o \in {"push", "push_blocking"}
IsPop(o) == o \in {"pop", "pop_blocking", "try_pop"}
\* push and pop wait with wait_for, push_blocking and pop_blocking with wait.
IsTimed(o) == o \in {"push", "pop"}

\* The record of an operation's return, and of a step in which none returns.
Returned(o, res, val) == [op |-> o, res |-> res, val |-> val]
NoReturn == [op |-> "none", res |-> "none", val |-> 0]

QInit ==
    /\ sq = SafeQueue(Capacity, TRUE)
    /\ interrupt_flag = FALSE
    /\ pc = [t \in Threads |-> "idle"]
    /\ op = [t \in Threads |-> "none"]
    /\ last = NoReturn
    /\ nextItem = 1
    /\ popped = <<>>
    /\ discarded = {}

\* The thread's operation returns: the thread is free to call again.
Idle(p, t) == [p EXCEPT ![t] = "idle"]

\* The part of push / push_blocking after the wait: the second shutdown test,
\* then queue_.push, not_empty_.notify_one() and `return true`.
PushFinish(t, o) ==
    /\ op' = [op EXCEPT ![t] = "none"]
    /\ IF PushAllowed(sq)
       THEN /\ sq' = Enqueue(sq, nextItem)
            /\ nextItem' = nextItem + 1
            /\ pc' \in NotifyOne(Idle(pc, t), "wait_not_empty", "ready_not_empty")
            /\ last' = Returned(o, "true", 0)
       ELSE /\ pc' = Idle(pc, t)
            /\ last' = Returned(o, "false", 0)
            /\ UNCHANGED <<sq, nextItem>>

\* push(item, timeout) and push_blocking(item), from the call up to the first
\* evaluation of the wait predicate.
PushCall(t, o) ==
    /\ pc[t] = "idle"
    /\ nextItem + Cardinality({u \in Threads : IsPush(op[u])}) <= MaxItems
    /\ IF sq.shutdown_
       THEN /\ last' = Returned(o, "false", 0)
            /\ UNCHANGED <<sq, nextItem, pc, op>>
       ELSE IF NotFullPred(sq)
       THEN PushFinish(t, o)
       ELSE /\ pc' = [pc EXCEPT ![t] = "wait_not_full"]
            /\ op' = [op EXCEPT ![t] = o]
            /\ last' = NoReturn
            /\ UNCHANGED <<sq, nextItem>>
    /\ UNCHANGED <<interrupt_flag, popped, discarded>>
    /\ UNCHANGED <<pvars, lvars, gvars, tvars>>

\* A pusher woken from not_full_ re-evaluates the predicate under the mutex.
PushResume(t) ==
    /\ pc[t] = "ready_not_full"
    /\ IF NotFullPred(sq)
       THEN PushFinish(t, op[t])
       ELSE /\ pc' = [pc EXCEPT ![t] = "wait_not_full"]
            /\ last' = NoReturn
            /\ UNCHANGED <<sq, nextItem, op>>
    /\ UNCHANGED <<interrupt_flag, popped, discarded>>
    /\ UNCHANGED <<pvars, lvars, gvars, tvars>>

\* wait_for of push expires: it returns the predicate's value.
PushTimeout(t) ==
    /\ pc[t] \in {"wait_not_full", "ready_not_full"}
    /\ IsTimed(op[t])
    /\ IF NotFullPred(sq)
       THEN PushFinish(t, op[t])
       ELSE /\ pc' = Idle(pc, t)
            /\ op' = [op EXCEPT ![t] = "none"]
            /\ last' = Returned(op[t], "false", 0)
            /\ UNCHANGED <<sq, nextItem>>
    /\ UNCHANGED <<interrupt_flag, popped, discarded>>
    /\ UNCHANGED <<pvars, lvars, gvars, tvars>>

\* The part of pop / pop_blocking / try_pop after the wait: the shutdown,
\* interrupt and emptiness tests, then front(), pop(), not_full_.notify_one().
PopFinish(t, o) ==
    LET r == PopResultOf(sq, interrupt_flag) IN
    /\ op' = [op EXCEPT ![t] = "none"]
    /\ IF r = "SUCCESS"
       THEN /\ sq' = Dequeue(sq)
            /\ popped' = Append(popped, Front(sq))
            /\ pc' \in NotifyOne(Idle(pc, t), "wait_not_full", "ready_not_full")
            /\ last' = Returned(o, r, Front(sq))
       ELSE /\ pc' = Idle(pc, t)
            /\ last' = Returned(o, r, 0)
            /\ UNCHANGED <<sq, popped>>

\* pop(item, timeout) and pop_blocking(item), from the call up to the first
\* evaluation of the wait predicate.
PopCall(t, o) ==
    /\ pc[t] = "idle"
    /\ IF NotEmptyPred(sq, interrupt_flag)
       THEN PopFinish(t, o)
       ELSE /\ pc' = [pc EXCEPT ![t] = "wait_not_empty"]
            /\ op' = [op EXCEPT ![t] = o]
            /\ last' = NoReturn
            /\ UNCHANGED <<sq, popped>>
    /\ UNCHANGED <<interrupt_flag, nextItem, discarded>>
    /\ UNCHANGED <<pvars, lvars, gvars, tvars>>

\* A popper woken from not_empty_ re-evaluates the predicate under the mutex.
PopResume(t) ==
    /\ pc[t] = "ready_not_empty"
    /\ IF NotEmptyPred(sq, interrupt_flag)
       THEN PopFinish(t, op[t])
       ELSE /\ pc' = [pc EXCEPT ![t] = "wait_not_empty"]
            /\ last' = NoReturn
            /\ UNCHANGED <<sq, popped, op>>
    /\ UNCHANGED <<interrupt_flag, nextItem, discarded>>
    /\ UNCHANGED <<pvars, lvars, gvars, tvars>>

\* wait_for of pop expires: TIMEOUT when the predicate is still false.
PopTimeout(t) ==
    /\ pc[t] \in {"wait_not_empty", "ready_not_empty"}
    /\ IsTimed(op[t])
    /\ IF NotEmptyPred(sq, interrupt_flag)
       THEN PopFinish(t, op[t])
       ELSE /\ pc' = Idle(pc, t)
            /\ op' = [op EXCEPT ![t] = "none"]
            /\ last' = Returned(op[t], "TIMEOUT", 0)
            /\ UNCHANGED <<sq, popped>>
    /\ UNCHANGED <<interrupt_flag, nextItem, discarded>>
    /\ UNCHANGED <<pvars, lvars, gvars, tvars>>

\* try_pop(item)
TryPop(t) ==
    /\ pc[t] = "idle"
    /\ PopFinish(t, "try_pop")
    /\ UNCHANGED <<interrupt_flag, nextItem, discarded>>
    /\ UNCHANGED <<pvars, lvars, gvars, tvars>>

\* The items of a queue, as a set.
Items(q) == {q.queue_[i] : i \in 1..Len(q.queue_)}

\* The client thread has returned from flush() and calls size() next.
Flushed_(p, t, o) == IF o = "flush" THEN [p EXCEPT ![t] = "flushed"] ELSE p

\* flush(), which returns the count, and clear()
Flush(t, o) ==
    /\ pc[t] = "idle"
    /\ sq' = Swapped(sq)
    /\ discarded' = discarded \cup Items(sq)
    /\ pc' = NotifyAll(Flushed_(pc, t, o), "wait_not_full", "ready_not_full")
    /\ last' = Returned(o, "void", IF o = "flush" THEN Len(sq.queue_) ELSE 0)
    /\ UNCHANGED <<interrupt_flag, op, nextItem, popped>>
    /\ UNCHANGED <<pvars, lvars, gvars, tvars>>

\* size(), called at any time or right after the thread's flush() returned.
Size(t) ==
    /\ pc[t] \in {"idle", "flushed"}
    /\ pc' = Idle(pc, t)
    /\ last' = Returned("size", IF pc[t] = "flushed" THEN "after_flush" ELSE "any",
                        Len(sq.queue_))
    /\ UNCHANGED <<sq, interrupt_flag, op, nextItem, popped, discarded>>
    /\ UNCHANGED <<pvars, lvars, gvars, tvars>>

\* shutdown(), the block that sets shutdown_ under the mutex
Shutdown(t) ==
    /\ pc[t] = "idle"
    /\ sq' = ShutdownSet(sq)
    /\ pc' = [pc EXCEPT ![t] = "notify"]
    /\ last' = NoReturn
    /\ UNCHANGED <<interrupt_flag, op, nextItem, popped, discarded>>
    /\ UNCHANGED <<pvars, lvars, gvars, tvars>>

\* shutdown(), not_empty_.notify_all(); not_full_.notify_all();
ShutdownNotify(t) ==
    /\ pc[t] = "notify"
    /\ pc' = NotifyAll(NotifyAll(Idle(pc, t), "wait_not_empty", "ready_not_empty"),
                       "wait_not_full", "ready_not_full")
    /\ last' = Returned("shutdown", "void", 0)
    /\ UNCHANGED <<sq, interrupt_flag, op, nextItem, popped, discarded>>
    /\ UNCHANGED <<pvars, lvars, gvars, tvars>>

\* A condition variable may wake a waiter with no notify.
SpuriousWake(t) ==
    /\ pc[t] \in {"wait_not_full", "wait_not_empty"}
    /\ pc' = [pc EXCEPT ![t] = IF pc[t] = "wait_not_full"
                               THEN "ready_not_full" ELSE "ready_not_empty"]
    /\ last' = NoReturn
    /\ UNCHANGED <<sq, interrupt_flag, op, nextItem, popped, discarded>>
    /\ UNCHANGED <<pvars, lvars, gvars, tvars>>

\* The owner of the external flag sets it; nothing is notified.
SetInterruptFlag ==
    /\ ~interrupt_flag
    /\ interrupt_flag' = TRUE
    /\ last' = NoReturn
    /\ UNCHANGED <<sq, pc, op, nextItem, popped, discarded>>
    /\ UNCHANGED <<pvars, lvars, gvars, tvars>>

QNext ==
    \/ \E t \in Threads, o \in {"push", "push_blocking"} : PushCall(t, o)
    \/ \E t \in Threads : PushResume(t)
    \/ \E t \in Threads : PushTimeout(t)
    \/ \E t \in Threads, o \in {"pop", "pop_blocking"} : PopCall(t, o)
    \/ \E t \in Threads : PopResume(t)
    \/ \E t \in Threads : PopTimeout(t)
    \/ \E t \in Threads : TryPop(t)
    \/ \E t \in Threads, o \in {"flush", "clear"} : Flush(t, o)
    \/ \E t \in Threads : Size(t)
    \/ \E t \in Threads : Shutdown(t)
    \/ \E t \in Threads : ShutdownNotify(t)
    \/ \E t \in Threads : SpuriousWake(t)
    \/ SetInterruptFlag

\* ------------------------------------ BaseProcessor: start(), stop() and run()
\* Calls of start() the calling threads make in all.
MaxStarts == 3

\* The threads that call start() and stop() on the same BaseProcessor.
Callers == {"c1", "c2"}

\* Identities of the threads created by `std::thread(&BaseProcessor::run, this)`.
RunThreads == {1, 2}

\* Position of a calling thread, with the thread it has just created (or 0).
Pos(p, i) == <<p, i>>
IdlePos == Pos("idle", 0)

\* What a call returned in the last step, if one returned.
NoRet == <<"none", "none">>

\* The BaseProcessor after its constructor: running_(false), thread_ not
\* joinable (0), an empty mailbox (only SHUTDOWN is sent here: their number).
\* Histories: the calls of start() and of initialize(), the calls of
\* initialize() that returned true, the calls of start() that returned true,
\* the SHUTDOWN signals sent, the calls of cleanup(), whether process() was
\* called, whether two calls ever overlapped, whether std::terminate was called.
BaseProcessor ==
    [running_ |-> FALSE, thread_ |-> 0, control_queue_ |-> 0,
     starts |-> 0, inits |-> 0, inits_ok |-> 0, started |-> 0, signalled |-> 0,
     cleanups |-> 0, processed |-> FALSE, overlap |-> FALSE,
     terminated |-> FALSE, ret |-> NoRet]

LInit ==
    /\ bp = BaseProcessor
    /\ lpc = [c \in Callers |-> IdlePos]
    /\ rt = [i \in RunThreads |-> "none"]

\* The call returns res / the step returns from no call.
Ret(b, o, res) == [b EXCEPT !.ret = <<o, res>>]
Mid(b) == [b EXCEPT !.ret = NoRet]

\* Another thread is inside start() or stop() when c calls.
Busy(c) == \E d \in Callers \ {c} : lpc[d] # IdlePos

\* start(): `if (running_) return false;`
StartRejected(b) == b.running_

\* Mutant: the result of initialize() is ignored.
StartAborts_never(ok) == FALSE

\* start(): `if (!initialize()) return false;`
StartAborts(ok) == ~ok

\* Mutant: stop() has no test of running_.
StopReturnsAtOnce_never(b) == FALSE

\* stop(): `if (!running_) return;`
StopReturnsAtOnce(b) == ~b.running_

\* start(), up to the test of running_.
StartCall(c) ==
    /\ ~bp.terminated
    /\ lpc[c] = IdlePos
    /\ bp.starts < MaxStarts
    /\ LET b == [bp EXCEPT !.starts = @ + 1, !.overlap = @ \/ Busy(c)] IN
       IF StartRejected(bp)
       THEN /\ bp' = Ret(b, "start", "false")
            /\ UNCHANGED lpc
       ELSE /\ bp' = Mid(b)
            /\ lpc' = [lpc EXCEPT ![c] = Pos("initialize", 0)]
    /\ UNCHANGED <<rt, interrupt_flag, qvars, pvars, gvars, tvars>>

\* start(): initialize() returns true or false.
Initialize(c) ==
    /\ ~bp.terminated
    /\ lpc[c] = Pos("initialize", 0)
    /\ \E ok \in BOOLEAN :
         LET b == [bp EXCEPT !.inits = @ + 1,
                             !.inits_ok = IF ok THEN @ + 1 ELSE @] IN
         IF StartAborts(ok)
         THEN /\ bp' = Ret(b, "start", "false")
              /\ lpc' = [lpc EXCEPT ![c] = IdlePos]
         ELSE /\ bp' = Mid(b)
              /\ lpc' = [lpc EXCEPT ![c] = Pos("set_running", 0)]
    /\ UNCHANGED <<rt, interrupt_flag, qvars, pvars, gvars, tvars>>

\* start(): `running_ = true;`
SetRunning(c) ==
    /\ ~bp.terminated
    /\ lpc[c] = Pos("set_running", 0)
    /\ bp' = Mid([bp EXCEPT !.running_ = TRUE])
    /\ lpc' = [lpc EXCEPT ![c] = Pos("spawn", 0)]
    /\ UNCHANGED <<rt, interrupt_flag, qvars, pvars, gvars, tvars>>

\* start(): `std::thread(&BaseProcessor::run, this)`: the new thread exists
\* and is at the top of run() before it is assigned to thread_.
Spawn(c) ==
    /\ ~bp.terminated
    /\ lpc[c] = Pos("spawn", 0)
    /\ \E i \in RunThreads :
         /\ rt[i] = "none"
         /\ i # bp.thread_
         /\ \A d \in Callers : lpc[d] # Pos("assign", i)
         /\ rt' = [rt EXCEPT ![i] = "loop"]
         /\ lpc' = [lpc EXCEPT ![c] = Pos("assign", i)]
    /\ bp' = Mid(bp)
    /\ UNCHANGED <<interrupt_flag, qvars, pvars, gvars, tvars>>

\* start(): `thread_ = ...; return true;`. The move assignment to a thread_
\* that is still joinable calls std::terminate.
Assign(c) ==
    /\ ~bp.terminated
    /\ lpc[c][1] = "assign"
    /\ IF bp.thread_ # 0
       THEN /\ bp' = Mid([bp EXCEPT !.terminated = TRUE])
            /\ UNCHANGED lpc
       ELSE /\ bp' = Ret([bp EXCEPT !.thread_ = lpc[c][2], !.started = @ + 1],
                         "start", "true")
            /\ lpc' = [lpc EXCEPT ![c] = IdlePos]
    /\ UNCHANGED <<rt, interrupt_flag, qvars, pvars, gvars, tvars>>

\* stop(), up to `running_ = false;`
StopCall(c) ==
    /\ ~bp.terminated
    /\ lpc[c] = IdlePos
    /\ LET b == [bp EXCEPT !.overlap = @ \/ Busy(c)] IN
       IF StopReturnsAtOnce(bp)
       THEN /\ bp' = Ret(b, "stop", "at once")
            /\ UNCHANGED lpc
       ELSE /\ bp' = Mid([b EXCEPT !.running_ = FALSE])
            /\ lpc' = [lpc EXCEPT ![c] = Pos("signal", 0)]
    /\ UNCHANGED <<rt, interrupt_flag, qvars, pvars, gvars, tvars>>

\* stop(): signal_control(ControlMessage(SHUTDOWN))
StopSignal(c) ==
    /\ ~bp.terminated
    /\ lpc[c] = Pos("signal", 0)
    /\ bp' = Mid([bp EXCEPT !.control_queue_ = @ + 1, !.signalled = @ + 1])
    /\ lpc' = [lpc EXCEPT ![c] = Pos("join", 0)]
    /\ UNCHANGED <<rt, interrupt_flag, qvars, pvars, gvars, tvars>>

\* stop(): `if (thread_.joinable()) thread_.join();`: join returns when the
\* thread has left run().
StopJoin(c) ==
    /\ ~bp.terminated
    /\ lpc[c] = Pos("join", 0)
    /\ bp.thread_ # 0 => rt[bp.thread_] = "none"
    /\ bp' = Mid([bp EXCEPT !.thread_ = 0])
    /\ lpc' = [lpc EXCEPT ![c] = Pos("cleanup", 0)]
    /\ UNCHANGED <<rt, interrupt_flag, qvars, pvars, gvars, tvars>>

\* stop(): cleanup()
StopCleanup(c) ==
    /\ ~bp.terminated
    /\ lpc[c] = Pos("cleanup", 0)
    /\ bp' = Ret([bp EXCEPT !.cleanups = @ + 1], "stop", "done")
    /\ lpc' = [lpc EXCEPT ![c] = IdlePos]
    /\ UNCHANGED <<rt, interrupt_flag, qvars, pvars, gvars, tvars>>

\* run(): `while (running_)`
RunLoop(i) ==
    /\ ~bp.terminated
    /\ rt[i] = "loop"
    /\ rt' = [rt EXCEPT ![i] = IF bp.running_ THEN "process" ELSE "none"]
    /\ bp' = Mid(bp)
    /\ UNCHANGED <<lpc, interrupt_flag, qvars, pvars, gvars, tvars>>

\* run(): process() is called and returns.
RunProcess(i) ==
    /\ ~bp.terminated
    /\ rt[i] = "process"
    /\ rt' = [rt EXCEPT ![i] = "drain"]
    /\ bp' = Mid([bp EXCEPT !.processed = TRUE])
    /\ UNCHANGED <<lpc, interrupt_flag, qvars, pvars, gvars, tvars>>

\* run(): `while (check_control_signal(control_msg))`: a SHUTDOWN that is not
\* handled by the worker makes run() return.
RunDrain(i) ==
    /\ ~bp.terminated
    /\ rt[i] = "drain"
    /\ IF bp.control_queue_ = 0
       THEN /\ rt' = [rt EXCEPT ![i] = "loop"]
            /\ bp' = Mid(bp)
       ELSE /\ rt' = [rt EXCEPT ![i] = "none"]
            /\ bp' = Mid([bp EXCEPT !.control_queue_ = @ - 1])
    /\ UNCHANGED <<lpc, interrupt_flag, qvars, pvars, gvars, tvars>>

LNext ==
    \/ \E c \in Callers : StartCall(c)
    \/ \E c \in Callers : Initialize(c)
    \/ \E c \in Callers : SetRunning(c)
    \/ \E c \in Callers : Spawn(c)
    \/ \E c \in Callers : Assign(c)
    \/ \E c \in Callers : StopCall(c)
    \/ \E c \in Callers : StopSignal(c)
    \/ \E c \in Callers : StopJoin(c)
    \/ \E c \in Callers : StopCleanup(c)
    \/ \E i \in RunThreads : RunLoop(i)
    \/ \E i \in RunThreads : RunProcess(i)
    \/ \E i \in RunThreads : RunDrain(i)

\* --------------------------------------------- the LLM backends: the chunker
\* `constexpr size_t MAX_BYTES = 96`: the latency safety valve.
MAX_BYTES == 96

\* Token fragments generated in one generation, at most.
MaxFragments == 3

\* LlamaLLM and RknnLLM.
Variants == {"llama", "rknn"}

\* Text is a sequence of bytes. std::isspace and std::isalnum in the "C"
\* locale; the bytes from 0x80 on are written <80> ... <ff>.
IsSpace(uc) == uc \in {" ", "\t", "\n", "\f", "\r"}

IsAlnum(uc) ==
    uc \in {"0", "1", "2", "3", "4", "5", "6", "7", "8", "9",
            "a", "b", "c", "d", "e", "f", "g", "h", "i", "j", "k", "l", "m",
            "n", "o", "p", "q", "r", "s", "t", "u", "v", "w", "x", "y", "z",
            "A", "B", "C", "D", "E", "F", "G", "H", "I", "J", "K", "L", "M",
            "N", "O", "P", "Q", "R", "S", "T", "U", "V", "W", "X", "Y", "Z"}

NonAscii == {"<80>", "<c3>", "<a9>", "<ff>"}

\* is_ws, is_wchar and is_punct of the word-counting loop.
is_ws(uc) == IsSpace(uc)
is_wchar(uc) == IsAlnum(uc) \/ uc = "'" \/ uc \in NonAscii
is_punct(uc) == uc \in {".", "!", "?", ",", ";", ":"}

\* Mutants: the buffer is flushed at the first complete word; the two
\* backends have each other's threshold.
WordThreshold_one(v) == 1

WordThreshold_swapped(v) == IF v = "llama" THEN 3 ELSE 4

\* The word count at which the buffer is flushed: `word_count >= 4` in
\* LlamaLLM::generate_async, `word_count >= 3` in RknnLLM::rknn_callback.
WordThreshold(v) == IF v = "llama" THEN 4 ELSE 3

\* The word-counting loop over the bytes of token_text. A word character
\* sets in_word; whitespace or punctuation clears it, and counts a word if it
\* was set; any other byte leaves it alone. So in_word after the first i
\* bytes is what the last of them that is a word character, whitespace or
\* punctuation made it.
InWordAfter(was_in_word, text, i) ==
    LET marks == {j \in 1..i : is_wchar(text[j]) \/ is_ws(text[j]) \/ is_punct(text[j])}
    IN  IF marks = {} THEN was_in_word
        ELSE is_wchar(text[CHOOSE j \in marks : \A k \in marks : k <= j])

\* The bytes at which `word_count++` is executed.
WordEnds(was_in_word, text) ==
    {i \in 1..Len(text) :
        /\ ~is_wchar(text[i])
        /\ is_ws(text[i]) \/ is_punct(text[i])
        /\ InWordAfter(was_in_word, text, i - 1)}

\* `for (unsigned char uc : token_text)`: word_count and in_word after it.
Scan(state, text) ==
    [word_count |-> state.word_count + Cardinality(WordEnds(state.in_word, text)),
     in_word |-> InWordAfter(state.in_word, text, Len(text))]

\* token_text.find('.'), find('!') or find('?') is not npos.
SentenceEnded(token_text) ==
    \E i \in 1..Len(token_text) : token_text[i] \in {".", "!", "?"}

\* The backend outside generate_async.
IdleLLM ==
    [pc |-> "idle", variant |-> "llama", stream |-> <<>>, tokens |-> <<>>,
     text_to_speak |-> <<>>, token_buffer |-> <<>>, word_count |-> 0,
     in_word |-> FALSE, done |-> FALSE, calls |-> <<>>, response |-> <<>>]

\* generate_async of backend v up to its first token: the chunker is empty.
\* `stream` holds the token fragments the model is going to produce, `calls`
\* the calls of the callback so far.
Generation(v, s) ==
    [IdleLLM EXCEPT !.pc = "generating", !.variant = v, !.stream = s]

\* callback(token_buffer); token_buffer.clear(). The call is recorded with
\* the fragment that caused it and with whether it is the final flush.
Callback(l, final, fragment) ==
    [l EXCEPT !.calls = Append(@, [text |-> l.token_buffer, final |-> final,
                                   fragment |-> fragment]),
              !.token_buffer = <<>>]

\* Mutants: the flush without the safety valve, and without the sentence end.
ShouldFlush_novalve(b, sentence_ended) ==
    b.word_count >= WordThreshold(b.variant) \/ sentence_ended

ShouldFlush_nosentence(b, sentence_ended) ==
    \/ b.word_count >= WordThreshold(b.variant)
    \/ Len(b.token_buffer) >= MAX_BYTES

\* `if (word_count >= 4 || sentence_ended || token_buffer.size() >= MAX_BYTES)`
ShouldFlush(b, sentence_ended) ==
    \/ b.word_count >= WordThreshold(b.variant)
    \/ sentence_ended
    \/ Len(b.token_buffer) >= MAX_BYTES

\* One token fragment goes through the chunker: it is appended to the
\* response and to the buffer, its bytes are scanned, and the whole buffer is
\* flushed if enough words are complete, if the fragment holds a sentence
\* terminator or if the buffer has reached MAX_BYTES.
Chunked(l, token_text) ==
    LET counted == Scan([word_count |-> l.word_count, in_word |-> l.in_word],
                        token_text)
        sentence_ended == SentenceEnded(token_text)
        b == [l EXCEPT !.text_to_speak = @ \o token_text,
                       !.token_buffer = @ \o token_text,
                       !.word_count = counted.word_count,
                       !.in_word = counted.in_word]
    IN  IF ShouldFlush(b, sentence_ended)
        THEN [Callback(b, FALSE, token_text) EXCEPT
                 !.in_word = IF sentence_ended THEN FALSE ELSE @,
                 !.word_count = 0]
        ELSE b

\* std::vector<std::string> antiprompts = {"Finn:"}
antiprompts == {<<"F", "i", "n", "n", ":">>}

RECURSIVE Concat(_)
Concat(texts) == IF texts = <<>> THEN <<>> ELSE Head(texts) \o Concat(Tail(texts))

\* last_output: the text of the last 16 tokens of embd_inp and of the new
\* token. (embd_inp begins with the prompt, which ends in the bot's name and
\* chat_symb; it is left out here.)
LastOutput(tokens) ==
    LET count == Len(tokens) IN
    Concat(SubSeq(tokens, IF count > 17 THEN count - 16 ELSE 1, count))

\* last_output.find(antiprompt, length() - antiprompt.length(), ...) is not
\* npos: last_output ends with the antiprompt.
EndsWith(text, antiprompt) ==
    /\ Len(text) >= Len(antiprompt)
    /\ SubSeq(text, Len(text) - Len(antiprompt) + 1, Len(text)) = antiprompt

\* The positions at which `from` occurs in `text`.
Occurs(text, from) ==
    {i \in 1..(Len(text) - Len(from) + 1) : SubSeq(text, i, i + Len(from) - 1) = from}

\* ::replace(text_to_speak, antiprompt, ""): every occurrence is removed,
\* from the first one on.
RECURSIVE Replace(_, _)
Replace(text, from) ==
    IF Occurs(text, from) = {} THEN text
    ELSE LET i == CHOOSE k \in Occurs(text, from) : \A j \in Occurs(text, from) : k <= j IN
         SubSeq(text, 1, i - 1) \o Replace(SubSeq(text, i + Len(from), Len(text)), from)

\* LlamaLLM: the check for antiprompts after each token. On a match the
\* generation is done and the antiprompt is removed from text_to_speak.
Stopped(l) ==
    IF \E a \in antiprompts : EndsWith(LastOutput(l.tokens), a)
    THEN LET a == CHOOSE x \in antiprompts : EndsWith(LastOutput(l.tokens), x) IN
         [l EXCEPT !.done = TRUE, !.text_to_speak = Replace(@, a)]
    ELSE l

\* One turn of the generation loop of LlamaLLM::generate_async, one call of
\* RknnLLM::rknn_callback with RKLLM_RUN_NORMAL: the next token fragment.
Sampled(l) ==
    LET piece == Head(l.stream)
        c == Chunked([l EXCEPT !.stream = Tail(@), !.tokens = Append(@, piece)], piece)
    IN  IF l.variant = "llama" THEN Stopped(c) ELSE c

\* The generation ends: LlamaLLM leaves its loop when an antiprompt was found,
\* the RKLLM runtime calls back with RKLLM_RUN_FINISH after the last token.
GenerationEnds(l) ==
    /\ l.pc = "generating"
    /\ IF l.variant = "llama" THEN l.done ELSE l.stream = <<>>

\* `if (!token_buffer.empty()) callback(token_buffer);`
FinalFlush(l) == IF l.token_buffer # <<>> THEN Callback(l, TRUE, <<>>) ELSE l

\* The final flush, and `response = ...`.
Finished(l) ==
    [FinalFlush(l) EXCEPT
              !.pc = "finished",
              !.response = l.text_to_speak,
              !.word_count = IF l.variant = "rknn" THEN 0 ELSE @,
              !.in_word = IF l.variant = "rknn" THEN FALSE ELSE @]

\* Words of 16, 48, 95 and 97 bytes.
Word16 ==
    <<"x", "x", "x", "x", "x", "x", "x", "x", "x", "x", "x", "x", "x", "x", "x", "x">>
Word48 == Word16 \o Word16 \o Word16
Word95 == Word48 \o SubSeq(Word48, 1, 47)
Word97 == Word48 \o Word48 \o <<"x">>

\* The token fragments the model produces: parts of words, words with a
\* leading space, punctuation, a sentence terminator in the middle of a
\* fragment, a byte that is neither word character, whitespace nor
\* punctuation, two words in one fragment, words of 48, 95 and 97 bytes, and
\* the two halves of "Finn:".
Fragments ==
    {<<"a">>, <<" ", "b">>, <<"c", ".">>, <<"d", ".", " ", "e">>, <<",">>,
     <<"-">>, <<"f", " ", "g", " ">>, Word48, Word95, Word97,
     <<" ", "F", "i", "n", "n">>, <<":">>}

\* ["The", " quick", " brown", " fox", " jumps.", " And", " then"]
QuickBrownFox ==
    << <<"T", "h", "e">>, <<" ", "q", "u", "i", "c", "k">>,
       <<" ", "b", "r", "o", "w", "n">>, <<" ", "f", "o", "x">>,
       <<" ", "j", "u", "m", "p", "s", ".">>, <<" ", "A", "n", "d">>,
       <<" ", "t", "h", "e", "n">> >>

\* ["Hi ", "there."]
HiThere == << <<"H", "i", " ">>, <<"t", "h", "e", "r", "e", ".">> >>

\* The token streams of one generation.
Streams ==
    UNION {[1..n -> Fragments] : n \in 0..MaxFragments}
        \cup {QuickBrownFox, HiThere}

\* No thread is inside process_text_input.
NoClient == [pc |-> "idle", pushed |-> FALSE, popped |-> "none", ret |-> "none",
             response |-> <<>>]

GInit == llm = IdleLLM /\ client = NoClient

\* The generations of either backend, for any stream of tokens.
Generations == {Generation(v, s) : v \in Variants, s \in Streams}


\* The model produces its next token fragment.
Feed ==
    /\ llm.pc = "generating"
    /\ llm.stream # <<>>
    /\ ~llm.done
    /\ llm' = Sampled(llm)
    /\ UNCHANGED <<client, interrupt_flag, qvars, pvars, lvars, tvars>>

\* The generation ends and generate_async returns.
Finish ==
    /\ GenerationEnds(llm)
    /\ llm' = Finished(llm)
    /\ UNCHANGED <<client, interrupt_flag, qvars, pvars, lvars, tvars>>

\* ---------------------------------------------------------- the phoneme ring
\* PhonemeQueueHeader::MAX_PHONEMES
MAX_PHONEMES == 1024
\* Slots of the ring that is watched by a live viewer, phonemes the TTS worker
\* has for it in all, phonemes of one send_phoneme_data call at most.
RingSlots == 3
RingEvents == 5
MaxBatch == 2
\* Phonemes the TTS worker has for the full-size ring whose viewer is stalled.
StalledWrites == 2000

\* A PhonemeData as `new (shared_queue_) PhonemeSharedQueue()` leaves it.
NoPhoneme == [phoneme_id |-> 0, duration_seconds |-> 0, timestamp_us |-> 0]

\* The shared segment: the header and the slots (n slots).
PhonemeSharedQueue(n) ==
    [MAX |-> n, write_index |-> 0, read_index |-> 0,
     phonemes |-> [i \in 0..(n - 1) |-> NoPhoneme]]

\* The thread inside send_phoneme_data: its place in the loop body, its locals
\* write_idx and next_idx, the phonemes left in the vector, the phonemes the
\* TTS worker still has to send, and the counts of phonemes stored and dropped.
NoSend ==
    [pc |-> "idle", store |-> 1, write_idx |-> 0, next_idx |-> 0, left |-> 0,
     budget |-> 0, stored |-> 0, dropped |-> 0]

\* The external viewer: the write_index it observed, the events it has read.
NoViewer == [pc |-> "idle", seen |-> 0, count |-> 0, stalled |-> FALSE]

\* The ring of a TTS worker that sends `budget` phonemes in all.
Ring(n, budget, stalled) ==
    [shm |-> PhonemeSharedQueue(n),
     tts |-> [NoSend EXCEPT !.budget = budget],
     viewer |-> [NoViewer EXCEPT !.stalled = stalled]]

\* Nothing was spoken.
NoSpeech == [pc |-> "idle"]

\* The client threads the server has started.
Clients == {"c1", "c2"}

\* A client thread before its call of process_text_input: the prompt it has
\* pushed (its number), the result of its pop, the message popped and what
\* the call returns.
NoCaller ==
    [pc |-> "idle", prompt |-> 0, popped |-> "none", llm_response |-> <<0, 0>>,
     ret |-> "none", response |-> <<0, 0>>]

\* The threads that use the playback device: the TTS worker, the Audio worker
\* and the thread that calls stop().
Users == {"TTS", "Audio", "stop"}

\* The device after init_audio_device(), both workers in their run loops,
\* stop() not yet called.
OpenPcm ==
    [device |-> "open", alsa_handle_ |-> "set",
     at |-> [u \in Users |-> IF u = "stop" THEN "idle" ELSE "run"],
     running_ |-> [w \in {"TTS", "Audio"} |-> TRUE],
     control_queue_ |-> <<>>]

\* No phoneme is sent, nothing is spoken, no client is connected, the device
\* is not used.
TInit ==
    /\ ring = Ring(RingSlots, 0, FALSE)
    /\ speech = NoSpeech
    /\ callers = [c \in Clients |-> NoCaller]
    /\ pcm = OpenPcm

\* Mutant: the index is published before the slot is written.
LoopBody_indexfirst ==
    <<"write_index", "phoneme_id", "duration_seconds", "timestamp_us">>

\* The stores of one iteration of the loop, in program order: the three
\* fields of phonemes[write_idx], then write_index.store(next_idx).
LoopBody == <<"phoneme_id", "duration_seconds", "timestamp_us", "write_index">>

\* Mutant: the ring is never found full.
QueueFull_never(next_idx, read_index) == FALSE

\* `if (next_idx == shared_queue_->header.read_index.load())`
QueueFull(next_idx, read_index) == next_idx = read_index

\* (write_idx + 1) % PhonemeQueueHeader::MAX_PHONEMES
NextIdx(write_idx, n) == (write_idx + 1) % n

\* TTSProcessor::process calls send_phoneme_data with n phoneme timings.
Send(n) ==
    /\ ring.tts.pc = "idle"
    /\ n \in 1..ring.tts.budget
    /\ ring' = [ring EXCEPT !.tts.pc = "for", !.tts.left = n, !.tts.budget = @ - n]
    /\ UNCHANGED <<interrupt_flag, qvars, pvars, lvars, gvars, speech, callers, pcm>>

\* `for (const auto& phoneme : phonemes)`: the call returns at the end of the
\* vector; otherwise write_index is loaded and next_idx computed.
SendNext ==
    /\ ring.tts.pc = "for"
    /\ ring' = IF ring.tts.left = 0
               THEN [ring EXCEPT !.tts.pc = "idle"]
               ELSE [ring EXCEPT !.tts.pc = "check",
                                 !.tts.write_idx = ring.shm.write_index,
                                 !.tts.next_idx = NextIdx(ring.shm.write_index,
                                                          ring.shm.MAX)]
    /\ UNCHANGED <<interrupt_flag, qvars, pvars, lvars, gvars, speech, callers, pcm>>

\* read_index is loaded: a full ring ends the loop (`break`), the phonemes
\* left are dropped and the call returns.
SendCheck ==
    /\ ring.tts.pc = "check"
    /\ ring' = IF QueueFull(ring.tts.next_idx, ring.shm.read_index)
               THEN [ring EXCEPT !.tts.pc = "idle", !.tts.left = 0,
                                 !.tts.dropped = @ + ring.tts.left]
               ELSE [ring EXCEPT !.tts.pc = "store", !.tts.store = 1]
    /\ UNCHANGED <<interrupt_flag, qvars, pvars, lvars, gvars, speech, callers, pcm>>

\* The value stored in the fields of a slot: the number of the phoneme.
PhonemeOf(t) == t.stored + 1

\* One store of the loop body.
SendStore ==
    LET t == ring.tts
        field == LoopBody[t.store]
        stored == IF field = "write_index"
                  THEN [ring EXCEPT !.shm.write_index = t.next_idx]
                  ELSE [ring EXCEPT !.shm.phonemes[t.write_idx][field] = PhonemeOf(t)] IN
    /\ ring.tts.pc = "store"
    /\ ring' = IF t.store < Len(LoopBody)
               THEN [stored EXCEPT !.tts.store = @ + 1]
               ELSE [stored EXCEPT !.tts.pc = "for", !.tts.left = @ - 1,
                                   !.tts.stored = @ + 1]
    /\ UNCHANGED <<interrupt_flag, qvars, pvars, lvars, gvars, speech, callers, pcm>>

\* The viewer loads write_index.
ViewerPoll ==
    /\ ring.viewer.pc = "idle"
    /\ ~ring.viewer.stalled
    /\ ring' = [ring EXCEPT !.viewer.seen = ring.shm.write_index,
                            !.viewer.pc = IF ring.shm.read_index = ring.shm.write_index
                                          THEN "idle" ELSE "reading"]
    /\ UNCHANGED <<interrupt_flag, qvars, pvars, lvars, gvars, speech, callers, pcm>>

\* The viewer has read the slot at read_index and advances read_index; it
\* goes on up to the write_index it observed.
ViewerAdvance ==
    LET r == NextIdx(ring.shm.read_index, ring.shm.MAX) IN
    /\ ring.viewer.pc = "reading"
    /\ ring' = [ring EXCEPT !.shm.read_index = r,
                            !.viewer.count = @ + 1,
                            !.viewer.pc = IF r = ring.viewer.seen
                                          THEN "idle" ELSE "reading"]
    /\ UNCHANGED <<interrupt_flag, qvars, pvars, lvars, gvars, speech, callers, pcm>>

\* ------------------------------------------------------------- the pipeline
\* Capacities of the text, response and audio-chunk queues.
TextCap == 1
ResponseCap == 1
AudioCap == 3
ControlCap == 1
\* Utterances STT transcribes in all, chunks the LLM emits for one utterance,
\* control signals sent from outside the workers.
MaxUtter == 1
MaxChunks == 4
MaxSignals == 1
\* The same for a barge-in: the user speaks again while the LLM answers, and
\* the LLM and TTS workers are told to drop what they hold.
BargeUtter == 2
BargeChunks == 2
BargeSignals == 2

Workers == {"STT", "LLM", "TTS", "Audio"}

\* The channels of the workers, and PipelineManager::control_queue_, a
\* SafeQueue that no worker is given.
QueueNames == {"text_queue_", "response_queue_", "audio_output_queue_",
               "control_queue_"}

\* ControlMessage::Type
ControlTypes == {"INTERRUPT", "FLUSH_QUEUES", "PAUSE", "RESUME", "SHUTDOWN"}

\* The control signals sent from outside the workers.
SignalTypes == {"INTERRUPT", "SHUTDOWN"}

\* The control signals that make a worker flush its queues.
FlushTypes == {"INTERRUPT", "FLUSH_QUEUES"}

\* input_queue_ and output_queue_ of each worker.
InputOf(w) ==
    CASE w = "LLM" -> "text_queue_"
      [] w = "TTS" -> "response_queue_"
      [] w = "Audio" -> "audio_output_queue_"

OutputOf(w) ==
    CASE w = "STT" -> "text_queue_"
      [] w = "LLM" -> "response_queue_"
      [] w = "TTS" -> "audio_output_queue_"

\* The worker that waits on not_empty_ / on not_full_ of a queue.
ConsumerOf(q) == CHOOSE w \in {"LLM", "TTS", "Audio"} : InputOf(w) = q
ProducerOf(q) == CHOOSE w \in {"STT", "LLM", "TTS"} : OutputOf(w) = q

\* A message: the utterance it belongs to and its chunk number (0: the text).
Msg(u, k) == <<u, k>>
NoMsg == <<0, 0>>

\* Positions of the thread that calls PipelineManager::stop(): the step it is
\* at and the worker the step is about.
At(step, w) == <<step, w>>

\* A notify reaches worker w if it waits in position `from`.
Wake(p, w, from, to) == IF p[w] = from THEN [p EXCEPT ![w] = to] ELSE p

\* The pipeline once PipelineManager::start() has returned true: the queues
\* are empty, every worker thread is at the top of BaseProcessor::run, the
\* playback device is open. The audio-chunk queue is given the interrupt
\* flag, the text and response queues are not.
PInit ==
    /\ queues = [q \in QueueNames |->
                    CASE q = "text_queue_" -> SafeQueue(TextCap, FALSE)
                      [] q = "response_queue_" -> SafeQueue(ResponseCap, FALSE)
                      [] q = "audio_output_queue_" -> SafeQueue(AudioCap, TRUE)
                      [] q = "control_queue_" -> SafeQueue(ControlCap, FALSE)]
    /\ running_ = [w \in Workers \cup {"PipelineManager"} |-> TRUE]
    /\ control_queue_ = [w \in Workers |-> <<>>]
    /\ wpc = [w \in Workers |-> "loop"]
    /\ work = [w \in Workers |-> NoMsg]
    /\ alsa = [handle_ |-> "open", drops |-> 0]
    /\ pm = At("running", "-")
    /\ utter = 1
    /\ signals = 0

\* The history of shutdown outcomes is kept (ObservedInit) or not (Init).
Untracked == [tracked |-> FALSE, by |-> {}]
Tracked == [tracked |-> TRUE, by |-> {}]

\* Worker w gets the shutdown outcome / leaves run().
Observe(w) == IF observed.tracked THEN [observed EXCEPT !.by = @ \cup {w}] ELSE observed
Forget(w) == [observed EXCEPT !.by = @ \ {w}]

Init == QInit /\ PInit /\ LInit /\ GInit /\ TInit /\ observed = Untracked

\* A generation has been started; the pipeline is not looked at.
ChunkerInit ==
    /\ QInit /\ PInit /\ LInit /\ TInit
    /\ observed = Untracked
    /\ llm \in Generations
    /\ client = NoClient

ObservedInit == QInit /\ PInit /\ LInit /\ GInit /\ TInit /\ observed = Tracked

\* Where a worker goes on when its push_blocking has returned: the LLM's
\* callback returns into generate_async, STT and TTS return from process().
AfterPush(w) == IF w = "LLM" THEN "generate" ELSE "drain"

\* The message worker w pushes: STT the text of the utterance it transcribed,
\* the LLM the next chunk of the utterance it holds, TTS the audio of the
\* chunk it holds.
ItemOf(w) ==
    CASE w = "STT" -> Msg(utter, 0)
      [] w = "LLM" -> Msg(work[w][1], work[w][2] + 1)
      [] w = "TTS" -> work[w]

\* push_blocking returns (true or false): the worker has moved its message.
WPushReturn(w) ==
    /\ work' = [work EXCEPT ![w] = IF w = "LLM" THEN ItemOf(w) ELSE NoMsg]
    /\ utter' = IF w = "STT" THEN utter + 1 ELSE utter

\* The part of push_blocking after the wait.
WPushFinish(w) ==
    LET q == OutputOf(w) IN
    /\ WPushReturn(w)
    /\ IF PushAllowed(queues[q])
       THEN /\ queues' = [queues EXCEPT ![q] = Enqueue(@, ItemOf(w))]
            /\ wpc' = Wake([wpc EXCEPT ![w] = AfterPush(w)], ConsumerOf(q),
                           "wait_not_empty", "ready_not_empty")
            /\ UNCHANGED observed
       ELSE /\ wpc' = [wpc EXCEPT ![w] = AfterPush(w)]
            /\ observed' = Observe(w)
            /\ UNCHANGED queues

\* output_queue_.push_blocking(item) up to the first evaluation of the wait
\* predicate.
WPush(w) ==
    LET q == OutputOf(w) IN
    IF queues[q].shutdown_
    THEN /\ wpc' = [wpc EXCEPT ![w] = AfterPush(w)]
         /\ WPushReturn(w)
         /\ observed' = Observe(w)
         /\ UNCHANGED queues
    ELSE IF NotFullPred(queues[q])
    THEN WPushFinish(w)
    ELSE /\ wpc' = [wpc EXCEPT ![w] = "wait_not_full"]
         /\ UNCHANGED <<queues, work, utter, observed>>

\* A worker woken from not_full_ re-evaluates the predicate under the mutex.
WPushResume(w) ==
    /\ wpc[w] = "ready_not_full"
    /\ IF NotFullPred(queues[OutputOf(w)])
       THEN WPushFinish(w)
       ELSE /\ wpc' = [wpc EXCEPT ![w] = "wait_not_full"]
            /\ UNCHANGED <<queues, work, utter, observed>>
    /\ UNCHANGED <<interrupt_flag, running_, control_queue_, alsa, pm, signals>>
    /\ UNCHANGED <<qvars, lvars, gvars, tvars>>

\* Where a worker goes on when its pop_blocking has returned SUCCESS.
AfterPop(w) ==
    CASE w = "LLM" -> "generate"
      [] w = "TTS" -> "speak"
      [] w = "Audio" -> "play"

\* The part of pop_blocking after the wait. Every other result than SUCCESS
\* makes process() return.
WPopFinish(w) ==
    LET q == InputOf(w)
        r == PopResultOf(queues[q], interrupt_flag) IN
    IF r = "SUCCESS"
    THEN /\ queues' = [queues EXCEPT ![q] = Dequeue(@)]
         /\ work' = [work EXCEPT ![w] = Front(queues[q])]
         /\ wpc' = Wake([wpc EXCEPT ![w] = AfterPop(w)], ProducerOf(q),
                        "wait_not_full", "ready_not_full")
         /\ UNCHANGED observed
    ELSE /\ wpc' = [wpc EXCEPT ![w] = "drain"]
         /\ observed' = IF r = "SHUTDOWN" THEN Observe(w) ELSE observed
         /\ UNCHANGED <<queues, work>>

\* input_queue_.pop_blocking(msg) up to the first evaluation of the wait
\* predicate.
WPop(w) ==
    IF NotEmptyPred(queues[InputOf(w)], interrupt_flag)
    THEN WPopFinish(w)
    ELSE /\ wpc' = [wpc EXCEPT ![w] = "wait_not_empty"]
         /\ UNCHANGED <<queues, work, observed>>

\* A worker woken from not_empty_ re-evaluates the predicate under the mutex.
WPopResume(w) ==
    /\ wpc[w] = "ready_not_empty"
    /\ WPop(w)
    /\ UNCHANGED <<interrupt_flag, running_, control_queue_, alsa, pm, utter, signals>>
    /\ UNCHANGED <<qvars, lvars, gvars, tvars>>

\* A condition variable may wake a waiting worker with no notify.
WSpuriousWake(w) ==
    /\ wpc[w] \in {"wait_not_full", "wait_not_empty"}
    /\ wpc' = [wpc EXCEPT ![w] = IF wpc[w] = "wait_not_full"
                                 THEN "ready_not_full" ELSE "ready_not_empty"]
    /\ UNCHANGED <<interrupt_flag, queues, running_, control_queue_, work, alsa,
                   pm, utter, signals>>
    /\ UNCHANGED observed
    /\ UNCHANGED <<qvars, lvars, gvars, tvars>>

\* ------------------------------------------------------------- BaseProcessor
\* run(): `while (running_)`; the thread leaves run() when running_ is false.
WLoop(w) ==
    /\ wpc[w] = "loop"
    /\ wpc' = [wpc EXCEPT ![w] = IF running_[w] THEN "process" ELSE "done"]
    /\ observed' = IF running_[w] THEN observed ELSE Forget(w)
    /\ UNCHANGED <<interrupt_flag, queues, running_, control_queue_, work, alsa,
                   pm, utter, signals>>
    /\ UNCHANGED <<qvars, lvars, gvars, tvars>>

\* input_queue_.flush() / output_queue_.flush() of the queues in qs, with the
\* not_full_.notify_all() of each.
Flushed(qs) == [q \in QueueNames |-> IF q \in qs THEN Swapped(queues[q]) ELSE queues[q]]

FlushWake(p, qs) ==
    [w \in Workers |->
        IF w # "Audio" /\ OutputOf(w) \in qs /\ p[w] = "wait_not_full"
        THEN "ready_not_full" ELSE p[w]]

\* Mutant: the LLM worker flushes its input queue only.
FlushedBy_inputonly(w) ==
    CASE w = "STT" -> {"text_queue_"}
      [] w = "LLM" -> {"text_queue_"}
      [] w = "TTS" -> {"response_queue_", "audio_output_queue_"}
      [] w = "Audio" -> {}

\* The queues handle_control_message of worker w flushes on INTERRUPT and
\* FLUSH_QUEUES (TTS through interrupt_audio_immediately).
FlushedBy(w) ==
    CASE w = "STT" -> {"text_queue_"}
      [] w = "LLM" -> {"text_queue_", "response_queue_"}
      [] w = "TTS" -> {"response_queue_", "audio_output_queue_"}
      [] w = "Audio" -> {}

\* Mutant: PAUSE and RESUME are handled like an INTERRUPT.
Handles_pausing(w, m) ==
    IF w = "Audio" THEN m = "SHUTDOWN" ELSE m # "SHUTDOWN"

\* handle_control_message returns true.
Handles(w, m) ==
    IF w = "Audio" THEN m = "SHUTDOWN" ELSE m \in {"INTERRUPT", "FLUSH_QUEUES"}

\* close_audio_device(): drain and close, alsa_handle_ = nullptr.
Closed(a) == [a EXCEPT !.handle_ = "closed"]

\* snd_pcm_drop and snd_pcm_prepare, when alsa_handle_ is not null.
Dropped(a) == IF a.handle_ = "open" THEN [a EXCEPT !.drops = @ + 1] ELSE a

\* run(): one turn of `while (check_control_signal(control_msg))`: the head of
\* the mailbox is removed and handled; an empty mailbox ends the iteration.
WDrain(w) ==
    /\ wpc[w] = "drain"
    /\ IF control_queue_[w] = <<>>
       THEN /\ wpc' = [wpc EXCEPT ![w] = "loop"]
            /\ UNCHANGED <<queues, control_queue_, alsa>>
       ELSE LET m == Head(control_queue_[w]) IN
            /\ control_queue_' = [control_queue_ EXCEPT ![w] = Tail(@)]
            /\ IF Handles(w, m)
               THEN IF w = "Audio"
                    THEN /\ alsa' = Closed(alsa)
                         /\ UNCHANGED <<queues, wpc>>
                    ELSE /\ queues' = Flushed(FlushedBy(w))
                         /\ wpc' = FlushWake([wpc EXCEPT ![w] =
                                        IF w = "TTS" THEN "drop" ELSE "drain"],
                                        FlushedBy(w))
                         /\ UNCHANGED alsa
               ELSE /\ wpc' = [wpc EXCEPT ![w] =
                                  IF m = "SHUTDOWN" THEN "done" ELSE "drain"]
                    /\ UNCHANGED <<queues, alsa>>
    /\ observed' = IF wpc'[w] = "done" THEN Forget(w) ELSE observed
    /\ UNCHANGED <<interrupt_flag, running_, work, pm, utter, signals>>
    /\ UNCHANGED <<qvars, lvars, gvars, tvars>>

\* interrupt_audio_immediately(), after the flush: drop-and-prepare.
TTSDrop ==
    /\ wpc["TTS"] = "drop"
    /\ alsa' = Dropped(alsa)
    /\ wpc' = [wpc EXCEPT !["TTS"] = "drain"]
    /\ UNCHANGED <<interrupt_flag, queues, running_, control_queue_, work, pm,
                   utter, signals>>
    /\ UNCHANGED observed
    /\ UNCHANGED <<qvars, lvars, gvars, tvars>>

\* signal_control(msg), called from outside the worker threads, n times in all.
Signal(n, w, m) ==
    /\ signals < n
    /\ signals' = signals + 1
    /\ control_queue_' = [control_queue_ EXCEPT ![w] = Append(@, m)]
    /\ UNCHANGED <<interrupt_flag, queues, running_, wpc, work, alsa, pm, utter>>
    /\ UNCHANGED observed
    /\ UNCHANGED <<qvars, lvars, gvars, tvars>>

SignalControl(w, m) == Signal(MaxSignals, w, m)

\* ---------------------------------------------------------------- the workers
\* STTProcessor::process(): no audio (interruptible sleep), no voice, or an
\* utterance is transcribed and pushed; n utterances are spoken in all.
STTTranscribe(n) ==
    /\ wpc["STT"] = "process"
    /\ IF ~running_["STT"]
       THEN /\ wpc' = [wpc EXCEPT !["STT"] = "drain"]
            /\ UNCHANGED <<queues, work, utter, observed>>
       ELSE \/ /\ wpc' = [wpc EXCEPT !["STT"] = "sleep"]
               /\ UNCHANGED <<queues, work, utter, observed>>
            \/ /\ wpc' = [wpc EXCEPT !["STT"] = "drain"]
               /\ UNCHANGED <<queues, work, utter, observed>>
            \/ /\ utter <= n
               /\ WPush("STT")
    /\ UNCHANGED <<interrupt_flag, running_, control_queue_, alsa, pm, signals>>
    /\ UNCHANGED <<qvars, lvars, gvars, tvars>>

STTProcess == STTTranscribe(MaxUtter)

\* wait_for_control_or_timeout returns, on a notify or at its timeout: a
\* control message that is in the mailbox is taken out; process() returns.
STTWake ==
    /\ wpc["STT"] = "sleep"
    /\ wpc' = [wpc EXCEPT !["STT"] = "drain"]
    /\ control_queue_' = [control_queue_ EXCEPT !["STT"] =
                             IF @ = <<>> THEN @ ELSE Tail(@)]
    /\ UNCHANGED <<interrupt_flag, queues, running_, work, alsa, pm, utter, signals>>
    /\ UNCHANGED observed
    /\ UNCHANGED <<qvars, lvars, gvars, tvars>>

\* LLMProcessor::process(), TTSProcessor::process() and
\* AudioOutputProcessor::process() up to the pop_blocking.
WProcess(w) ==
    /\ wpc[w] = "process"
    /\ IF ~running_[w]
       THEN /\ wpc' = [wpc EXCEPT ![w] = "drain"]
            /\ UNCHANGED <<queues, work, observed>>
       ELSE WPop(w)
    /\ UNCHANGED <<interrupt_flag, running_, control_queue_, alsa, pm, utter, signals>>
    /\ UNCHANGED <<qvars, lvars, gvars, tvars>>

\* generate_async: the backend hands one more chunk to the callback, which
\* pushes it, or the generation ends and process() returns; a generation
\* emits at most n chunks.
Generate(n) ==
    /\ wpc["LLM"] = "generate"
    /\ \/ /\ work["LLM"][2] < n
          /\ WPush("LLM")
       \/ /\ wpc' = [wpc EXCEPT !["LLM"] = "drain"]
          /\ work' = [work EXCEPT !["LLM"] = NoMsg]
          /\ UNCHANGED <<queues, utter, observed>>
    /\ UNCHANGED <<interrupt_flag, running_, control_queue_, alsa, pm, signals>>
    /\ UNCHANGED <<qvars, lvars, gvars, tvars>>

LLMGenerate == Generate(MaxChunks)

\* speak / speakWithPhonemeTimings: on success the audio chunk is pushed, on
\* failure process() returns.
TTSSpeak ==
    /\ wpc["TTS"] = "speak"
    /\ \/ WPush("TTS")
       \/ /\ wpc' = [wpc EXCEPT !["TTS"] = "drain"]
          /\ work' = [work EXCEPT !["TTS"] = NoMsg]
          /\ UNCHANGED <<queues, utter, observed>>
    /\ UNCHANGED <<interrupt_flag, running_, control_queue_, alsa, pm, signals>>
    /\ UNCHANGED <<qvars, lvars, gvars, tvars>>

\* play_audio_chunk has written the whole chunk (or returned at once because
\* alsa_handle_ is null).
AudioPlay ==
    /\ wpc["Audio"] = "play"
    /\ wpc' = [wpc EXCEPT !["Audio"] = "drain"]
    /\ work' = [work EXCEPT !["Audio"] = NoMsg]
    /\ UNCHANGED <<interrupt_flag, queues, running_, control_queue_, alsa, pm,
                   utter, signals>>
    /\ UNCHANGED observed
    /\ UNCHANGED <<qvars, lvars, gvars, tvars>>

\* ------------------------------------------------------------ the supervisor
\* SafeQueue::shutdown() of a pipeline queue: shutdown_ is set under the
\* mutex, then both condition variables are notified; a worker that tested
\* the predicate before is waiting by then, so the two are one step here.
ShutDown(q) ==
    /\ queues' = [queues EXCEPT ![q] = ShutdownSet(@)]
    /\ wpc' = Wake(Wake(wpc, ConsumerOf(q), "wait_not_empty", "ready_not_empty"),
                   ProducerOf(q), "wait_not_full", "ready_not_full")

\* PipelineManager::stop(): `if (!running_) return; running_ = false;`
PMStop ==
    /\ pm = At("running", "-")
    /\ running_["PipelineManager"]
    /\ running_' = [running_ EXCEPT !["PipelineManager"] = FALSE]
    /\ pm' = At("shutdown", "text_queue_")
    /\ UNCHANGED <<interrupt_flag, queues, control_queue_, wpc, work, alsa, utter,
                   signals>>
    /\ UNCHANGED observed
    /\ UNCHANGED <<qvars, lvars, gvars, tvars>>

\* The first worker PipelineManager::stop() stops.
FirstStopped == "STT"

\* PipelineManager::stop(): text_queue_->shutdown(), response_queue_->shutdown(),
\* control_queue_->shutdown() (a queue on which no thread waits).
PMShutdown ==
    /\ pm[1] = "shutdown"
    /\ IF pm[2] = "control_queue_"
       THEN /\ queues' = [queues EXCEPT ![pm[2]] = ShutdownSet(@)]
            /\ UNCHANGED wpc
       ELSE ShutDown(pm[2])
    /\ pm' = CASE pm[2] = "text_queue_" -> At("shutdown", "response_queue_")
               [] pm[2] = "response_queue_" -> At("shutdown", "control_queue_")
               [] pm[2] = "control_queue_" -> At("stop", FirstStopped)
    /\ UNCHANGED <<interrupt_flag, running_, control_queue_, work, alsa, utter,
                   signals>>
    /\ UNCHANGED observed
    /\ UNCHANGED <<qvars, lvars, gvars, tvars>>

\* Mutant: the LLM worker is stopped after the TTS worker.
AfterStop_ttsfirst(w) ==
    CASE w = "STT" -> At("stop", "TTS")
      [] w = "TTS" -> At("cleanup_flush", "TTS")
      [] w = "Audio" -> At("stop", "LLM")
      [] w = "LLM" -> At("stopped", "-")

\* What follows the stop() of worker w in the calling thread: the stop() of
\* the next worker, for TTS its cleanup(), for Audio the end of stop().
AfterStop(w) ==
    CASE w = "STT" -> At("stop", "LLM")
      [] w = "LLM" -> At("stop", "TTS")
      [] w = "TTS" -> At("cleanup_flush", "TTS")
      [] w = "Audio" -> At("stopped", "-")

\* BaseProcessor::stop(): `if (!running_) return; running_ = false;`
PMStopWorker(w) ==
    /\ pm = At("stop", w)
    /\ IF running_[w]
       THEN /\ running_' = [running_ EXCEPT ![w] = FALSE]
            /\ pm' = At("signal", w)
       ELSE /\ pm' = AfterStop(w)
            /\ UNCHANGED running_
    /\ UNCHANGED <<interrupt_flag, queues, control_queue_, wpc, work, alsa, utter,
                   signals>>
    /\ UNCHANGED observed
    /\ UNCHANGED <<qvars, lvars, gvars, tvars>>

\* BaseProcessor::stop(): signal_control(ControlMessage(SHUTDOWN)).
PMSignalWorker(w) ==
    /\ pm = At("signal", w)
    /\ control_queue_' = [control_queue_ EXCEPT ![w] = Append(@, "SHUTDOWN")]
    /\ pm' = At("join", w)
    /\ UNCHANGED <<interrupt_flag, queues, running_, wpc, work, alsa, utter, signals>>
    /\ UNCHANGED observed
    /\ UNCHANGED <<qvars, lvars, gvars, tvars>>

\* BaseProcessor::stop(): thread_.join() returns once the worker thread has
\* left run(); then cleanup(), which for Audio closes the device.
PMJoinWorker(w) ==
    /\ pm = At("join", w)
    /\ wpc[w] = "done"
    /\ pm' = AfterStop(w)
    /\ alsa' = IF w = "Audio" THEN Closed(alsa) ELSE alsa
    /\ UNCHANGED <<interrupt_flag, queues, running_, control_queue_, wpc, work,
                   utter, signals>>
    /\ UNCHANGED observed
    /\ UNCHANGED <<qvars, lvars, gvars, tvars>>

\* TTSProcessor::cleanup(): interrupt_audio_immediately() (flush, then
\* drop-and-prepare), audio_output_queue_->shutdown(), then
\* audio_output_processor_->stop().
TTSCleanup ==
    /\ pm[2] = "TTS"
    /\ \/ /\ pm[1] = "cleanup_flush"
          /\ queues' = Flushed({"audio_output_queue_"})
          /\ wpc' = FlushWake(wpc, {"audio_output_queue_"})
          /\ pm' = At("cleanup_drop", "TTS")
          /\ UNCHANGED alsa
       \/ /\ pm[1] = "cleanup_drop"
          /\ alsa' = Dropped(alsa)
          /\ pm' = At("cleanup_shutdown", "TTS")
          /\ UNCHANGED <<queues, wpc>>
       \/ /\ pm[1] = "cleanup_shutdown"
          /\ ShutDown("audio_output_queue_")
          /\ pm' = At("stop", "Audio")
          /\ UNCHANGED alsa
    /\ UNCHANGED <<interrupt_flag, running_, control_queue_, work, utter, signals>>
    /\ UNCHANGED observed
    /\ UNCHANGED <<qvars, lvars, gvars, tvars>>

\* SIGINT / SIGTERM: the shared interrupt flag is set.
SignalInterrupt ==
    /\ ~interrupt_flag
    /\ interrupt_flag' = TRUE
    /\ UNCHANGED <<qvars, pvars, lvars, gvars, tvars>>

\* ------------------------------------------------- PipelineManager::start()
\* Mutant: the workers are started upstream-first.
StartOrder_upstream == <<"STT", "LLM", "TTS">>

\* The order in which PipelineManager::start() starts the workers.
StartOrder == <<"TTS", "LLM", "STT">>

\* The pipeline after PipelineManager::initialize(): no worker is started, the
\* playback device is not open.
PStartInit ==
    /\ queues = [q \in QueueNames |->
                    CASE q = "text_queue_" -> SafeQueue(TextCap, FALSE)
                      [] q = "response_queue_" -> SafeQueue(ResponseCap, FALSE)
                      [] q = "audio_output_queue_" -> SafeQueue(AudioCap, TRUE)
                      [] q = "control_queue_" -> SafeQueue(ControlCap, FALSE)]
    /\ running_ = [w \in Workers \cup {"PipelineManager"} |-> FALSE]
    /\ control_queue_ = [w \in Workers |-> <<>>]
    /\ wpc = [w \in Workers |-> "not_started"]
    /\ work = [w \in Workers |-> NoMsg]
    /\ alsa = [handle_ |-> "closed", drops |-> 0]
    /\ pm = At("initialized", "-")
    /\ utter = 1
    /\ signals = 0

StartInit ==
    QInit /\ PStartInit /\ LInit /\ GInit /\ TInit /\ observed = Untracked

\* What follows the successful start() of worker w in the calling thread: for
\* Audio the rest of TTSProcessor::initialize, else the start() of the next
\* worker, or `running_ = true`.
AfterStart(w) ==
    IF w = "Audio" THEN At("setup", "TTS")
    ELSE LET i == CHOOSE k \in 1..Len(StartOrder) : StartOrder[k] = w IN
         IF i < Len(StartOrder) THEN At("start", StartOrder[i + 1])
         ELSE At("set_running", "-")

\* What follows a start() of worker w that returns false: for Audio
\* TTSProcessor::initialize returns false and so does the start() of TTS.
StartFailed(w) == At("failed", IF w = "Audio" THEN "TTS" ELSE w)

\* PipelineManager::start(): `if (running_) return false;`, then the first
\* worker is started.
PMStart ==
    /\ pm = At("initialized", "-")
    /\ ~running_["PipelineManager"]
    /\ pm' = At("start", StartOrder[1])
    /\ UNCHANGED <<interrupt_flag, queues, running_, control_queue_, wpc, work,
                   alsa, utter, signals, observed>>
    /\ UNCHANGED <<qvars, lvars, gvars, tvars>>

\* BaseProcessor::start() of worker w: `if (running_) return false;`
PMStartWorker(w) ==
    /\ pm = At("start", w)
    /\ pm' = IF running_[w] THEN StartFailed(w) ELSE At("initialize", w)
    /\ UNCHANGED <<interrupt_flag, queues, running_, control_queue_, wpc, work,
                   alsa, utter, signals, observed>>
    /\ UNCHANGED <<qvars, lvars, gvars, tvars>>

\* initialize() of worker w: the backend, the capture device or the playback
\* device is set up, or fails to. TTSProcessor::initialize starts the Audio
\* worker once its backend is set up.
PMInitialize(w) ==
    /\ pm = At("initialize", w)
    /\ \E ok \in BOOLEAN :
         /\ pm' = IF ~ok THEN StartFailed(w)
                  ELSE IF w = "TTS" THEN At("start", "Audio")
                  ELSE At("spawn", w)
         /\ alsa' = IF ok /\ w = "Audio" THEN [alsa EXCEPT !.handle_ = "open"]
                    ELSE alsa
    /\ UNCHANGED <<interrupt_flag, queues, running_, control_queue_, wpc, work,
                   utter, signals, observed>>
    /\ UNCHANGED <<qvars, lvars, gvars, tvars>>

\* TTSProcessor::initialize after the start of the Audio worker:
\* setup_unix_socket() and setup_shared_memory() succeed or fail.
PMSetup ==
    /\ pm = At("setup", "TTS")
    /\ \E ok \in BOOLEAN : pm' = IF ok THEN At("spawn", "TTS") ELSE StartFailed("TTS")
    /\ UNCHANGED <<interrupt_flag, queues, running_, control_queue_, wpc, work,
                   alsa, utter, signals, observed>>
    /\ UNCHANGED <<qvars, lvars, gvars, tvars>>

\* BaseProcessor::start(): `running_ = true; thread_ = std::thread(...);
\* return true;`
PMSpawn(w) ==
    /\ pm = At("spawn", w)
    /\ running_' = [running_ EXCEPT ![w] = TRUE]
    /\ wpc' = [wpc EXCEPT ![w] = "loop"]
    /\ pm' = AfterStart(w)
    /\ UNCHANGED <<interrupt_flag, queues, control_queue_, work, alsa, utter,
                   signals, observed>>
    /\ UNCHANGED <<qvars, lvars, gvars, tvars>>

\* PipelineManager::start(): `running_ = true; return true;`
PMStarted ==
    /\ pm = At("set_running", "-")
    /\ running_' = [running_ EXCEPT !["PipelineManager"] = TRUE]
    /\ pm' = At("running", "-")
    /\ UNCHANGED <<interrupt_flag, queues, control_queue_, wpc, work, alsa, utter,
                   signals, observed>>
    /\ UNCHANGED <<qvars, lvars, gvars, tvars>>

\* PipelineManager::start(): a start() returned false; the catch block calls
\* stop(), which goes on only if running_ is set, and start() returns false.
PMStartFailed ==
    /\ pm[1] = "failed"
    /\ pm' = IF running_["PipelineManager"] THEN At("running", "-")
             ELSE At("start_failed", "-")
    /\ UNCHANGED <<interrupt_flag, queues, running_, control_queue_, wpc, work,
                   alsa, utter, signals, observed>>
    /\ UNCHANGED <<qvars, lvars, gvars, tvars>>

\* The steps of worker thread w.
WorkerStep(w) ==
    \/ WLoop(w)
    \/ w = "STT" /\ (STTProcess \/ STTWake)
    \/ w # "STT" /\ WProcess(w)
    \/ w # "STT" /\ WPopResume(w)
    \/ w # "Audio" /\ WPushResume(w)
    \/ w = "LLM" /\ LLMGenerate
    \/ w = "TTS" /\ (TTSSpeak \/ TTSDrop)
    \/ w = "Audio" /\ AudioPlay
    \/ WDrain(w)

\* The steps of PipelineManager::stop() once it has been called.
PMStep ==
    \/ PMShutdown
    \/ \E w \in Workers : PMStopWorker(w) \/ PMSignalWorker(w) \/ PMJoinWorker(w)
    \/ TTSCleanup

\* The pipeline under PipelineManager::stop() and SIGINT / SIGTERM; no control
\* signal is sent from outside the workers.
ShutdownNext ==
    \/ \E w \in Workers : WLoop(w)
    \/ STTProcess
    \/ STTWake
    \/ \E w \in Workers \ {"STT"} : WProcess(w)
    \/ \E w \in Workers \ {"STT"} : WPopResume(w)
    \/ \E w \in Workers \ {"Audio"} : WPushResume(w)
    \/ \E w \in Workers : WSpuriousWake(w)
    \/ LLMGenerate
    \/ TTSSpeak
    \/ AudioPlay
    \/ \E w \in Workers : WDrain(w)
    \/ SignalInterrupt
    \/ PMStop
    \/ PMShutdown
    \/ \E w \in Workers : PMStopWorker(w)
    \/ \E w \in Workers : PMSignalWorker(w)
    \/ \E w \in Workers : PMJoinWorker(w)
    \/ TTSCleanup

ShutdownSpec == Init /\ [][ShutdownNext]_vars

\* The same, with the history of the shutdown outcomes.
ObservedSpec == ObservedInit /\ [][ShutdownNext]_vars

\* The running pipeline under control signals sent from outside the workers.
ControlNext ==
    \/ \E w \in Workers : WLoop(w)
    \/ STTProcess
    \/ STTWake
    \/ \E w \in Workers \ {"STT"} : WProcess(w)
    \/ \E w \in Workers \ {"STT"} : WPopResume(w)
    \/ \E w \in Workers \ {"Audio"} : WPushResume(w)
    \/ \E w \in Workers : WSpuriousWake(w)
    \/ LLMGenerate
    \/ TTSSpeak
    \/ TTSDrop
    \/ AudioPlay
    \/ \E w \in Workers : WDrain(w)
    \/ \E w \in Workers, m \in SignalTypes : SignalControl(w, m)

ControlSpec == Init /\ [][ControlNext]_vars

\* The LLM worker is inside generate_async (or inside its callback).
GenerationInFlight == wpc["LLM"] \in {"generate", "wait_not_full", "ready_not_full"}

\* A barge-in signal: signal_control(INTERRUPT or FLUSH_QUEUES) is called on the LLM
\* or the TTS worker while a generation is in flight.
Barge(w, m) == GenerationInFlight /\ Signal(BargeSignals, w, m)

\* The running pipeline under barge-ins.
BargeNext ==
    \/ \E w \in Workers : WLoop(w)
    \/ STTTranscribe(BargeUtter)
    \/ STTWake
    \/ \E w \in Workers \ {"STT"} : WProcess(w)
    \/ \E w \in Workers \ {"STT"} : WPopResume(w)
    \/ \E w \in Workers \ {"Audio"} : WPushResume(w)
    \/ \E w \in Workers : WSpuriousWake(w)
    \/ Generate(BargeChunks)
    \/ TTSSpeak
    \/ TTSDrop
    \/ AudioPlay
    \/ \E w \in Workers : WDrain(w)
    \/ \E w \in {"LLM", "TTS"}, m \in FlushTypes : Barge(w, m)

BargeSpec == Init /\ [][BargeNext]_vars

\* ---------------------------------------------------------- text-only mode
\* The token streams of the backend in text-only mode.
TextStreams ==
    {<<>>, HiThere, HiThere \o << <<" ", "F", "i", "n", "n">>, <<":">> >>,
     QuickBrownFox}

\* TEXT_ONLY: only the LLM worker is created and started; the caller's
\* response string is empty.
TextInit ==
    /\ QInit /\ LInit /\ TInit
    /\ queues = [q \in QueueNames |->
                    CASE q = "text_queue_" -> SafeQueue(TextCap, FALSE)
                      [] q = "response_queue_" -> SafeQueue(ResponseCap, FALSE)
                      [] q = "audio_output_queue_" -> SafeQueue(AudioCap, TRUE)
                      [] q = "control_queue_" -> SafeQueue(ControlCap, FALSE)]
    /\ running_ = [w \in Workers \cup {"PipelineManager"} |->
                      w \in {"LLM", "PipelineManager"}]
    /\ control_queue_ = [w \in Workers |-> <<>>]
    /\ wpc = [w \in Workers |-> IF w = "LLM" THEN "loop" ELSE "not_started"]
    /\ work = [w \in Workers |-> NoMsg]
    /\ alsa = [handle_ |-> "closed", drops |-> 0]
    /\ pm = At("running", "-")
    /\ utter = 1
    /\ signals = 0
    /\ observed = Untracked
    /\ llm \in {[IdleLLM EXCEPT !.variant = v] : v \in Variants}
    /\ client = NoClient

\* The enumerators of PopResult, in the order of their declaration.
PopResultValue(r) ==
    CASE r = "SUCCESS" -> 0
      [] r = "EMPTY" -> 1
      [] r = "SHUTDOWN" -> 2
      [] r = "INTERRUPTED" -> 3
      [] r = "TIMEOUT" -> 4

\* `!x`: true exactly when x compares equal to zero.
LogicalNot(x) == x = 0

\* `if (!response_queue_->pop(llm_response, ...)) return false;`: the operand
\* of `!` is the PopResult.
PopRejected(r) == LogicalNot(PopResultValue(r))

\* TextMessage::text of a response chunk: what the callback was given.
TextOf(m) == llm.calls[m[2]].text

\* process_text_input is called: `if (!running_ || !llm_processor_) return false;`
CEnter ==
    /\ client.pc = "idle"
    /\ client' = IF running_["PipelineManager"] /\ wpc["LLM"] # "not_started"
                 THEN [client EXCEPT !.pc = "push"]
                 ELSE [client EXCEPT !.pc = "returned", !.ret = "false"]
    /\ UNCHANGED <<llm, interrupt_flag, qvars, pvars, lvars, tvars>>

\* text_queue_->push(text_msg, text_timeout_ms): the text is enqueued once
\* there is room; false at the expiry of the timeout while the queue is
\* full, or when the queue is shut down.
CPush ==
    LET q == queues["text_queue_"] IN
    /\ client.pc = "push"
    /\ IF NotFullPred(q) /\ PushAllowed(q)
       THEN /\ queues' = [queues EXCEPT !["text_queue_"] = Enqueue(@, Msg(utter, 0))]
            /\ utter' = utter + 1
            /\ wpc' = Wake(wpc, "LLM", "wait_not_empty", "ready_not_empty")
            /\ client' = [client EXCEPT !.pc = "pop", !.pushed = TRUE]
       ELSE /\ client' = [client EXCEPT !.pc = "returned", !.ret = "false"]
            /\ UNCHANGED <<queues, utter, wpc>>
    /\ UNCHANGED <<llm, interrupt_flag, running_, control_queue_, work, alsa, pm,
                   signals, observed>>
    /\ UNCHANGED <<qvars, lvars, tvars>>

\* response_queue_->pop(llm_response, response_timeout_ms) and the rest of
\* process_text_input: TIMEOUT at the expiry of the timeout while the wait
\* predicate is false, the result of the pop otherwise; then the test of the
\* result, `response = llm_response.text; return true;`.
CPop ==
    LET q == queues["response_queue_"]
        r == IF NotEmptyPred(q, interrupt_flag)
             THEN PopResultOf(q, interrupt_flag) ELSE "TIMEOUT"
        llm_response == IF r = "SUCCESS" THEN TextOf(Front(q)) ELSE <<>> IN
    /\ client.pc = "pop"
    /\ IF r = "SUCCESS"
       THEN /\ queues' = [queues EXCEPT !["response_queue_"] = Dequeue(@)]
            /\ wpc' = Wake(wpc, "LLM", "wait_not_full", "ready_not_full")
       ELSE UNCHANGED <<queues, wpc>>
    /\ client' = IF PopRejected(r)
                 THEN [client EXCEPT !.pc = "returned", !.popped = r, !.ret = "false"]
                 ELSE [client EXCEPT !.pc = "returned", !.popped = r, !.ret = "true",
                                     !.response = llm_response]
    /\ UNCHANGED <<llm, interrupt_flag, running_, control_queue_, work, alsa, pm,
                   utter, signals, observed>>
    /\ UNCHANGED <<qvars, lvars, tvars>>

\* The callback was called in this step of the backend.
Called(l, after) == Len(after.calls) > Len(l.calls)

\* LLMProcessor::process calls llm_->generate_async for the text it popped.
GenerateStart(s) ==
    /\ wpc["LLM"] = "generate"
    /\ llm.pc = "idle"
    /\ llm' = Generation(llm.variant, s)
    /\ UNCHANGED <<client, interrupt_flag, qvars, pvars, lvars, tvars>>

\* The backend produces its next token fragment; a flush calls the callback.
GenerateFeed ==
    /\ wpc["LLM"] = "generate"
    /\ llm.pc = "generating"
    /\ llm.stream # <<>>
    /\ ~llm.done
    /\ llm' = Sampled(llm)
    /\ wpc' = [wpc EXCEPT !["LLM"] = IF Called(llm, Sampled(llm)) THEN "callback" ELSE @]
    /\ UNCHANGED <<client, interrupt_flag, queues, running_, control_queue_, work,
                   alsa, pm, utter, signals, observed>>
    /\ UNCHANGED <<qvars, lvars, tvars>>

\* The generation ends; the final flush calls the callback.
GenerateFinish ==
    /\ wpc["LLM"] = "generate"
    /\ GenerationEnds(llm)
    /\ llm' = Finished(llm)
    /\ wpc' = [wpc EXCEPT !["LLM"] = IF Called(llm, Finished(llm)) THEN "callback" ELSE @]
    /\ UNCHANGED <<client, interrupt_flag, queues, running_, control_queue_, work,
                   alsa, pm, utter, signals, observed>>
    /\ UNCHANGED <<qvars, lvars, tvars>>

\* The callback of LLMProcessor::process: output_queue_.push_blocking(chunk).
LLMCallback ==
    /\ wpc["LLM"] = "callback"
    /\ WPush("LLM")
    /\ UNCHANGED <<interrupt_flag, running_, control_queue_, alsa, pm, signals>>
    /\ UNCHANGED <<qvars, lvars, gvars, tvars>>

\* generate_async has returned; process() returns.
GenerateReturn ==
    /\ wpc["LLM"] = "generate"
    /\ llm.pc = "finished"
    /\ wpc' = [wpc EXCEPT !["LLM"] = "drain"]
    /\ work' = [work EXCEPT !["LLM"] = NoMsg]
    /\ UNCHANGED <<interrupt_flag, queues, running_, control_queue_, alsa, pm,
                   utter, signals, observed>>
    /\ UNCHANGED <<qvars, lvars, gvars, tvars>>

\* One call of process_text_input on the pipeline in text-only mode.
TextNext ==
    \/ CEnter
    \/ CPush
    \/ CPop
    \/ WLoop("LLM")
    \/ WProcess("LLM")
    \/ WPopResume("LLM")
    \/ WPushResume("LLM")
    \/ WSpuriousWake("LLM")
    \/ WDrain("LLM")
    \/ \E s \in TextStreams : GenerateStart(s)
    \/ GenerateFeed
    \/ GenerateFinish
    \/ LLMCallback
    \/ GenerateReturn

TextSpec == TextInit /\ [][TextNext]_vars

\* PipelineManager::start() and the workers it starts.
StartNext ==
    \/ PMStart
    \/ \E w \in Workers : PMStartWorker(w)
    \/ \E w \in Workers : PMInitialize(w)
    \/ PMSetup
    \/ \E w \in Workers : PMSpawn(w)
    \/ PMStarted
    \/ PMStartFailed
    \/ \E w \in Workers : WLoop(w)
    \/ STTProcess
    \/ STTWake
    \/ \E w \in Workers \ {"STT"} : WProcess(w)
    \/ \E w \in Workers \ {"STT"} : WPopResume(w)
    \/ \E w \in Workers \ {"Audio"} : WPushResume(w)
    \/ \E w \in Workers : WSpuriousWake(w)
    \/ LLMGenerate
    \/ TTSSpeak
    \/ AudioPlay
    \/ \E w \in Workers : WDrain(w)

StartSpec == StartInit /\ [][StartNext]_vars

\* Every worker thread is scheduled and every backend call it makes returns;
\* the thread inside PipelineManager::stop() is scheduled. No fairness for the
\* senders of signals, for the call of stop() or for spurious wake-ups.
PipeFairness ==
    /\ \A w \in Workers : WF_vars(WorkerStep(w))
    /\ WF_vars(PMStep)

ShutdownFairSpec == Init /\ [][ShutdownNext]_vars /\ PipeFairness

ControlFairSpec == Init /\ [][ControlNext]_vars /\ PipeFairness

\* One generation of an LLM backend.
ChunkerNext == Feed \/ Finish

ChunkerSpec == ChunkerInit /\ [][ChunkerNext]_vars

\* One BaseProcessor under concurrent calls of start() and stop().
LifecycleSpec == Init /\ [][LNext]_vars

\* The client threads of one SafeQueue.
Next == QNext

Spec == Init /\ [][Next]_vars

\* The step a thread takes once it is runnable inside an operation: a woken
\* waiter re-acquires the mutex and goes on, shutdown() goes on to notify_all.
Proceed(t) == PushResume(t) \/ PopResume(t) \/ ShutdownNotify(t)

\* Every runnable thread is scheduled. No fairness for the calls, for the
\* external flag, for spurious wake-ups or for the expiry of timed waits.
QFairness == \A t \in Threads : WF_vars(Proceed(t))

FairSpec == Init /\ [][Next]_vars /\ QFairness

\* ------------------------------------------------------------------ claims
\* Claims C1 - C5, C9, C10: one SafeQueue and its client threads.
Waiting == {"wait_not_full", "ready_not_full", "wait_not_empty", "ready_not_empty"}

\* An operation returned in this step.
ReturnedNow == last'.op # "none"

\* C1: a SafeQueue of capacity N never holds more than N items, under any
\* interleaving of its operations.
C1_CapacityBound == Len(sq.queue_) <= sq.max_size_

\* A woken pusher faces a queue that another pusher has filled again.
C1_Witness == Len(sq.queue_) = sq.max_size_ /\ \E t \in Threads : pc[t] = "ready_not_full"

\* C2: the items returned by successful pops are, in the same order, a
\* subsequence of the items enqueued (numbered 1, 2, ... as they are enqueued).
C2_FifoOrder ==
    /\ \A i \in DOMAIN popped : popped[i] \in 1..(nextItem - 1)
    /\ \A i, j \in DOMAIN popped : i < j => popped[i] < popped[j]

\* Two items were popped around a flushed one, and another is queued.
C2_Witness ==
    /\ Len(popped) >= 2 /\ sq.queue_ # <<>>
    /\ \E x \in discarded : popped[1] < x /\ x < popped[Len(popped)]

\* How many times item x is accounted for: popped, discarded or still queued.
Occurrences(x) ==
    Cardinality({i \in DOMAIN popped : popped[i] = x})
    + Cardinality({i \in DOMAIN sq.queue_ : sq.queue_[i] = x})
    + (IF x \in discarded THEN 1 ELSE 0)

\* C3: every enqueued item is returned by exactly one pop, or discarded by a
\* flush / clear, or still in the queue (undelivered once the queue is shut
\* down); nothing is returned twice and nothing is returned that was not pushed.
C3_ExactlyOnce ==
    /\ \A x \in 1..(nextItem - 1) : Occurrences(x) = 1
    /\ \A i \in DOMAIN popped : popped[i] \in 1..(nextItem - 1)
    /\ discarded \subseteq 1..(nextItem - 1)

\* One item popped, one discarded, one left in a queue that was shut down.
C3_Witness == popped # <<>> /\ discarded # {} /\ sq.shutdown_ /\ sq.queue_ # <<>>

\* C4: shutdown_ is never cleared; a push or push_blocking that returns once
\* shutdown_ is set returns false; a push that returns false leaves the queue
\* contents unchanged.
C4_ShutdownMonotonic ==
    [][/\ sq.shutdown_ => sq'.shutdown_
       /\ (ReturnedNow /\ IsPush(last'.op) /\ sq.shutdown_) => last'.res = "false"
       /\ (ReturnedNow /\ IsPush(last'.op) /\ last'.res = "false")
             => sq'.queue_ = sq.queue_]_vars

\* A push_blocking has failed on a shut-down queue that still holds items.
C4_Witness ==
    sq.shutdown_ /\ last.op = "push_blocking" /\ last.res = "false" /\ sq.queue_ # <<>>

\* C5: once shutdown_ is set, every pop that returns returns SHUTDOWN (also
\* with items queued or the interrupt flag set), and every thread blocked in
\* a push or a pop returns: no waiter stays blocked.
C5_ShutdownWakesAll ==
    /\ [][(ReturnedNow /\ IsPop(last'.op) /\ sq.shutdown_)
            => last'.res = "SHUTDOWN"]_vars
    /\ sq.shutdown_ ~> (\A t \in Threads : pc[t] \notin Waiting)

\* A pop has returned SHUTDOWN with items queued and the interrupt flag set.
C5_Witness ==
    /\ sq.shutdown_ /\ IsPop(last.op) /\ last.res = "SHUTDOWN"
    /\ sq.queue_ # <<>> /\ interrupt_flag

\* C9: a consumer blocked in pop_blocking on an empty queue that is not shut
\* down leaves the wait once the external interrupt flag is true.
C9_InterruptWakesWaiter ==
    \A t \in Threads :
        (pc[t] = "wait_not_empty" /\ op[t] = "pop_blocking" /\ interrupt_flag)
            ~> (pc[t] # "wait_not_empty")

\* C10: a pop that runs with the queue not shut down and the interrupt flag
\* true returns INTERRUPTED and removes nothing, also from a non-empty queue;
\* a pop returns SUCCESS only with the queue not shut down and the flag false.
C10_InterruptedPop ==
    [][(ReturnedNow /\ IsPop(last'.op)) =>
          /\ (~sq.shutdown_ /\ interrupt_flag)
                => (last'.res = "INTERRUPTED" /\ sq' = sq)
          /\ last'.res = "SUCCESS" => (~sq.shutdown_ /\ ~interrupt_flag)]_vars

\* A pop has returned INTERRUPTED from a non-empty queue that is not shut down.
C10_Witness ==
    IsPop(last.op) /\ last.res = "INTERRUPTED" /\ sq.queue_ # <<>> /\ ~sq.shutdown_

\* Claims C6 - C8: the pipeline.
\* PipelineManager::stop() has not been called / has returned.
PipelineRunning == pm = At("running", "-")
StopReturned == pm = At("stopped", "-")

\* Every worker thread has left BaseProcessor::run (so that join returns).
AllJoined == \A w \in Workers : wpc[w] = "done"

BargeIn ==
    /\ Len(queues["audio_output_queue_"].queue_) = 3
    /\ wpc["Audio"] = "play" /\ alsa.handle_ = "open" /\ alsa.drops = 0
    /\ wpc["TTS"] = "wait_not_empty"
    /\ queues["response_queue_"].queue_ = <<>>
    /\ control_queue_["TTS"] = <<"INTERRUPT">>

\* The audio-chunk queue is empty, the device has been dropped-and-prepared,
\* the TTS worker is blocked in pop_blocking again.
BargedIn ==
    /\ queues["audio_output_queue_"].queue_ = <<>>
    /\ alsa.drops > 0
    /\ wpc["TTS"] = "wait_not_empty"

\* C8: barge-in leads to the audio-chunk queue empty, the device
\* dropped-and-prepared and the TTS worker blocked in pop_blocking again,
\* unless the pop_blocking of the TTS worker returns (a further message has
\* arrived on the response queue).
C8_BargeIn ==
    BargeIn ~> (BargedIn \/ wpc["TTS"] \notin {"wait_not_empty", "ready_not_empty"})


\* Claims C11, C13 - C16: flush() and size(); start() and stop() of a worker.
\* C11: flush() returns the number of items it discarded, and a size() call
\* the flushing thread makes right after flush() has returned yields 0,
\* whatever the producers do in between.
C11_FlushThenSize == (last.op = "size" /\ last.res = "after_flush") => last.val = 0

\* The threads that are executing run().
Runners == {i \in RunThreads : rt[i] # "none"}

\* C13: start() on a running worker returns false without calling
\* initialize() and without creating a thread, and at most one thread executes
\* the worker's run loop at a time, also under concurrent calls of start().
C13_SingleRunner == Cardinality(Runners) <= 1

\* No call of start() or stop() is in progress.
Quiet == \A c \in Callers : lpc[c] = IdlePos

\* C14: when the calls do not overlap, every stop() that follows a completed
\* stop() returns at once: between the calls, the SHUTDOWN signals sent and
\* the calls of cleanup() both number the successful start() calls that a
\* stop() has followed.
C14_StopIdempotent ==
    (~bp.overlap /\ Quiet) =>
        /\ bp.cleanups = bp.started - (IF bp.running_ THEN 1 ELSE 0)
        /\ bp.signalled = bp.cleanups
        /\ bp.ret = <<"stop", "at once">> => (bp.thread_ = 0 /\ Runners = {})

\* A second stop() has returned after a completed stop().
C14_Witness ==
    ~bp.overlap /\ Quiet /\ bp.cleanups = 1 /\ bp.started = 1
    /\ bp.ret = <<"stop", "at once">>

\* C15: the worker goes from not-started to running at most once: a start()
\* called after a stop() has completed is rejected.
C15_StartOnce ==
    [][\A c \in Callers :
          (lpc[c] = IdlePos /\ lpc'[c] = Pos("initialize", 0)) => bp.cleanups = 0]_vars

\* C16: as long as no initialize() has returned true, no start() has returned
\* true, running_ is false, no thread executes run(), and neither process()
\* nor cleanup() has been called.
C16_FailedInit ==
    bp.inits_ok = 0 =>
        /\ bp.started = 0 /\ ~bp.running_ /\ Runners = {}
        /\ ~bp.processed /\ bp.cleanups = 0
        /\ bp.ret # <<"start", "true">>

\* initialize() has returned false in both calls of start() made so far, and
\* start() has just returned false.
C16_Witness ==
    bp.inits = 2 /\ bp.inits_ok = 0 /\ bp.ret = <<"start", "false">>
    /\ bp.starts = 2


\* Claims C12, C17 - C20: the workers under control signals, start() and stop().
\* Control message m is in the mailbox of worker w.
InMailbox(w, m) == \E i \in 1..Len(control_queue_[w]) : control_queue_[w][i] = m

\* An item is waiting on the input channel of worker w.
InputPending(w) == w # "STT" /\ queues[InputOf(w)].queue_ # <<>>

\* C12: once signal_control has put a SHUTDOWN in a worker's mailbox, with no
\* stop() and no further item on its input channel, the worker's thread leaves
\* the run loop.
C12_ShutdownSignal ==
    \A w \in Workers : InMailbox(w, "SHUTDOWN") ~> (wpc[w] = "done" \/ InputPending(w))


\* PipelineManager::stop() is inside the stop() of worker w (TTS: up to the
\* end of its cleanup), or past it.
InStopOf(w) == pm[2] = w /\ pm[1] # "shutdown"
StopCompleted(w) == ~running_[w] /\ wpc[w] = "done" /\ ~InStopOf(w)

\* The text, response and control queues are shut down.
ChannelsShutDown ==
    \A q \in {"text_queue_", "response_queue_", "control_queue_"} : queues[q].shutdown_

\* C19: PipelineManager::stop() sets running_ to false and shuts down the
\* text, response and control queues before it stops or joins any worker, and
\* stops the workers upstream-first: STT's stop() has completed when the LLM's
\* begins, the LLM's when TTS's begins, and the Audio worker is stopped last,
\* from the cleanup of TTS.
C19_StopOrder ==
    /\ (\E w \in Workers : InStopOf(w) \/ ~running_[w]) =>
           (~running_["PipelineManager"] /\ ChannelsShutDown)
    /\ (InStopOf("LLM") \/ ~running_["LLM"]) => StopCompleted("STT")
    /\ (InStopOf("TTS") \/ ~running_["TTS"]) => StopCompleted("LLM")
    /\ (InStopOf("Audio") \/ ~running_["Audio"]) =>
           (StopCompleted("STT") /\ StopCompleted("LLM")
            /\ ~running_["TTS"] /\ wpc["TTS"] = "done")
    /\ pm = At("stopped", "-") => \A w \in Workers : StopCompleted(w)

\* stop() has returned: every worker was stopped, the Audio worker last.
C19_Witness ==
    pm = At("stopped", "-") /\ ChannelsShutDown /\ \A w \in Workers : wpc[w] = "done"

\* The step in which worker w calls pop_blocking, calls push_blocking for one
\* more chunk, or calls its backend (capture, transcription, synthesis).
UsesChannel(w) ==
    \/ wpc[w] = "process" /\ running_[w] /\ wpc'[w] # "process"
    \/ wpc[w] = "generate" /\ work'[w] # work[w] /\ work'[w] # NoMsg
    \/ wpc[w] = "speak" /\ wpc'[w] # "speak"

\* C20: a worker whose pop_blocking or push_blocking has returned the
\* shutdown outcome makes no further pop, push or backend call.
C20_ShutdownTerminal == [][\A w \in observed.by : ~UsesChannel(w)]_vars


\* The thread of worker w exists and has not left run().
ThreadRunning(w) == wpc[w] \notin {"not_started", "done"}
Started(w) == wpc[w] # "not_started"

\* C17: when PipelineManager::start() returns false because a worker failed
\* to start, no worker thread is left running and is_running() is false.
C17_FailedStart ==
    pm = At("start_failed", "-") =>
        (~running_["PipelineManager"] /\ \A w \in Workers : ~ThreadRunning(w))

\* C18: PipelineManager::start() starts the workers downstream-first (Audio
\* before TTS, TTS before the LLM, the LLM before STT), and nothing is pushed
\* to a channel whose consumer has not been started.
C18_StartOrder ==
    /\ Started("TTS") => Started("Audio")
    /\ Started("LLM") => Started("TTS")
    /\ Started("STT") => Started("LLM")
    /\ \A w \in Workers \ {"STT"} :
          (queues[InputOf(w)].queue_ # <<>> \/ wpc[ProducerOf(InputOf(w))] = "wait_not_full")
              => Started(w)

\* start() has returned true, every worker is started, and STT has pushed a
\* text to the channel of the LLM.
C18_Witness ==
    /\ pm = At("running", "-")
    /\ \A w \in Workers : Started(w)
    /\ queues["text_queue_"].queue_ # <<>>


\* Claims C25 - C29: the output chunker of the LLM backends.
\* The texts passed to the callback so far, in order.
ChunkTexts == [i \in 1..Len(llm.calls) |-> llm.calls[i].text]

\* The bytes of a text that are sentence terminators.
Terminators(text) == {j \in 1..Len(text) : text[j] \in {".", "!", "?"}}

\* The text ends with a sentence terminator.
EndsSentence(text) == text # <<>> /\ Len(text) \in Terminators(text)

\* C25: when a generation has ended, the chunks passed to the callback,
\* concatenated in order and with the final flush, are the response (all
\* fragments, less the antiprompt that ended the generation), and the
\* antiprompt is in no chunk.
C25_Conservation ==
    llm.pc = "finished" =>
        /\ Concat(ChunkTexts) = llm.response
        /\ llm.done =>
              \A i \in 1..Len(llm.calls), a \in antiprompts :
                  Occurs(llm.calls[i].text, a) = {}

\* C26 as stated: no chunk is longer than 96 bytes, except one that is a
\* single fragment which was longer than 96 bytes itself (stated for the
\* final flush; here such a chunk is let pass wherever it is emitted).
C26_ChunkBound ==
    \A i \in 1..Len(llm.calls) :
        Len(llm.calls[i].text) > MAX_BYTES =>
            \E k \in 1..Len(llm.tokens) : llm.tokens[k] = llm.calls[i].text

\* C26, amended: the buffer is flushed as soon as a fragment has brought it
\* to 96 bytes, so a chunk is shorter than 96 bytes without the fragment that
\* caused its flush, the final flush is shorter than 96 bytes, and the text
\* held back is always shorter than 96 bytes.
C26_ValveBound ==
    /\ Len(llm.token_buffer) < MAX_BYTES
    /\ \A i \in 1..Len(llm.calls) :
          Len(llm.calls[i].text) - Len(llm.calls[i].fragment) < MAX_BYTES

\* A fragment was appended to a buffer just under 96 bytes: the chunk is
\* longer than 96 bytes and longer than that fragment.
C26_Witness ==
    \E i \in 1..Len(llm.calls) :
        /\ Len(llm.calls[i].text) > MAX_BYTES
        /\ Len(llm.calls[i].fragment) < Len(llm.calls[i].text)
        /\ Len(llm.calls[i].text) - Len(llm.calls[i].fragment) = MAX_BYTES - 1

\* C27 as stated: in every chunk a sentence terminator ('.', '!' or '?') is
\* the last byte.
C27_TerminatorEnds ==
    \A i \in 1..Len(llm.calls) :
        \A j \in Terminators(llm.calls[i].text) : j = Len(llm.calls[i].text)

\* C27, amended: the fragment that holds a sentence terminator ends a chunk,
\* whole: in every chunk the terminators lie in the last fragment, the one
\* that caused the flush, and neither the final flush nor the text held back
\* holds one.
C27_TerminatorFlushes ==
    /\ Terminators(llm.token_buffer) = {}
    /\ \A i \in 1..Len(llm.calls) :
          \A j \in Terminators(llm.calls[i].text) :
              j > Len(llm.calls[i].text) - Len(llm.calls[i].fragment)

\* A chunk holds a terminator that is followed by further bytes of the same
\* fragment, and text of an earlier fragment before it.
C27_Witness ==
    \E i \in 1..Len(llm.calls) :
        /\ Terminators(llm.calls[i].text) # {}
        /\ ~EndsSentence(llm.calls[i].text)
        /\ Len(llm.calls[i].fragment) < Len(llm.calls[i].text)

\* A word character followed by whitespace or by one of . ! ? , ; :
HasWordBoundary(text) ==
    \E j \in 1..(Len(text) - 1) :
        is_wchar(text[j]) /\ (is_ws(text[j + 1]) \/ is_punct(text[j + 1]))

\* C28 as stated: every chunk that is not the final flush and does not end
\* with a sentence terminator holds a complete word boundary.
C28_WordBoundary ==
    \A i \in 1..Len(llm.calls) :
        (~llm.calls[i].final /\ ~EndsSentence(llm.calls[i].text))
            => HasWordBoundary(llm.calls[i].text)

\* The words that open and are closed inside the text, counted as the chunker
\* counts them.
WordsIn(text) == Cardinality(WordEnds(FALSE, text))

\* C28, amended: every chunk that is not the final flush holds a sentence
\* terminator, or is at least 96 bytes long (the safety valve, which may
\* flush in mid-word), or holds at least one word that opens and is closed
\* inside it.
C28_FlushReason ==
    \A i \in 1..Len(llm.calls) :
        ~llm.calls[i].final =>
            \/ Terminators(llm.calls[i].text) # {}
            \/ Len(llm.calls[i].text) >= MAX_BYTES
            \/ WordsIn(llm.calls[i].text) >= 1

\* A chunk was flushed by the safety valve alone, in mid-word, and another
\* by the word count.
C28_Witness ==
    /\ \E i \in 1..Len(llm.calls) :
          /\ ~llm.calls[i].final
          /\ Len(llm.calls[i].text) >= MAX_BYTES
          /\ ~HasWordBoundary(llm.calls[i].text)
    /\ \E i \in 1..Len(llm.calls) :
          /\ ~llm.calls[i].final
          /\ Terminators(llm.calls[i].text) = {}
          /\ Len(llm.calls[i].text) < MAX_BYTES

\* "The quick brown fox jumps.", "And then", " And then",
\* "The quick brown fox", " jumps."
FoxJumps == Concat(SubSeq(QuickBrownFox, 1, 5))
AndThen == <<"A", "n", "d", " ", "t", "h", "e", "n">>
SpaceAndThen == Concat(SubSeq(QuickBrownFox, 6, 7))
QuickFox == Concat(SubSeq(QuickBrownFox, 1, 4))
Jumps == QuickBrownFox[5]

\* C29 as stated: fed "The", " quick", " brown", " fox", " jumps.", " And",
\* " then" and then the end of the generation, the chunker has emitted
\* "The quick brown fox jumps." and, at the final flush, "And then".
C29_TwoChunks ==
    (llm.tokens = QuickBrownFox /\ llm.pc = "finished")
        => /\ ChunkTexts = <<FoxJumps, AndThen>>
           /\ llm.calls[Len(llm.calls)].final

\* C29, amended: fed these seven fragments, the chunker that flushes at four
\* words has emitted one chunk, "The quick brown fox jumps.", and holds
\* " And then" (with the space) for the final flush; the chunker that flushes
\* at three words emits "The quick brown fox", " jumps." and, at the final
\* flush, " And then".
C29_FoxChunks ==
    /\ (llm.variant = "llama" /\ llm.tokens = QuickBrownFox)
          => /\ ChunkTexts = <<FoxJumps>>
             /\ llm.token_buffer = SpaceAndThen
    /\ (llm.variant = "rknn" /\ llm.tokens = QuickBrownFox /\ llm.pc = "finished")
          => /\ ChunkTexts = <<QuickFox, Jumps, SpaceAndThen>>
             /\ llm.calls[3].final

\* The generation of the seven fragments has ended with the final flush.
C29_Witness ==
    /\ llm.tokens = QuickBrownFox
    /\ llm.pc = "finished"
    /\ Len(llm.calls) > 0
    /\ llm.calls[Len(llm.calls)].final


\* A message is older than another: an earlier utterance, or an earlier chunk
\* of the same utterance.
Before(a, b) == a[1] < b[1] \/ (a[1] = b[1] /\ a[2] < b[2])

\* The message a worker holds, if it holds one: the LLM the chunk its backend
\* emits next, TTS the chunk it synthesizes, Audio the chunk it plays.
Holds(w) ==
    IF w = "LLM"
    THEN IF GenerationInFlight THEN <<ItemOf("LLM")>> ELSE <<>>
    ELSE IF work[w] = NoMsg THEN <<>> ELSE <<work[w]>>

\* The messages in the pipeline from the loudspeaker back to the microphone,
\* ending with the utterance STT transcribes next.
Flow ==
    Holds("Audio") \o queues["audio_output_queue_"].queue_
        \o Holds("TTS") \o queues["response_queue_"].queue_
        \o Holds("LLM") \o queues["text_queue_"].queue_
        \o <<Msg(utter, 0)>>

InterruptPending ==
    /\ GenerationInFlight
    /\ \E i \in 1..Len(control_queue_["LLM"]) : control_queue_["LLM"][i] = "INTERRUPT"

\* The TTS worker pops a response chunk of the utterance the LLM generates for.
TTSPopsChunk ==
    /\ work["TTS"] = NoMsg
    /\ work'["TTS"] # NoMsg
    /\ work'["TTS"][1] = work["LLM"][1]

\* C23: an INTERRUPT was sent to the LLM worker during the generation in
\* flight, and the TTS worker has handled the signal sent to it (it has
\* flushed its queues and dropped the playback): from then on the TTS worker
\* pops no response chunk of that generation.
C23_Discarded ==
    [][(InterruptPending /\ alsa.drops > 0 /\ control_queue_["TTS"] = <<>>)
          => ~TTSPopsChunk]_vars

\* handle_control_message of the LLM worker runs in this step for an
\* INTERRUPT or a FLUSH_QUEUES.
LLMHandlesFlush ==
    /\ wpc["LLM"] = "drain"
    /\ control_queue_["LLM"] # <<>>
    /\ Head(control_queue_["LLM"]) \in FlushTypes
    /\ control_queue_'["LLM"] = Tail(control_queue_["LLM"])

StaleText(u) ==
    /\ wpc["STT"] \in {"loop", "process", "sleep"}
    /\ control_queue_["STT"] # <<>>
    /\ Head(control_queue_["STT"]) \in FlushTypes
    /\ \E i \in 1..Len(queues["text_queue_"].queue_) :
          queues["text_queue_"].queue_[i] = Msg(u, 0)

\* C22: once INTERRUPT or FLUSH_QUEUES has been sent to the STT worker, a
\* text that was pending in the text queue when it was sent is never popped
\* by the LLM worker afterwards.
C22_NoStaleText ==
    \A u \in 1..MaxUtter : [](StaleText(u) => [](work["LLM"][1] # u))


\* "Hi there."
HiThereText == <<"H", "i", " ", "t", "h", "e", "r", "e", ".">>

\* The fragments the backend delivers in this generation, in all.
Delivered == llm.tokens \o llm.stream

\* C30: process_text_input returns true exactly when its push succeeded and a
\* response chunk was popped within the timeout; for a backend that delivers
\* "Hi " and "there." the response queue receives exactly one chunk,
\* "Hi there.", and the call that pops it returns true with that response.
C30_RoundTrip ==
    /\ client.pc = "returned"
          => (client.ret = "true" <=> (client.pushed /\ client.popped = "SUCCESS"))
    /\ (Delivered = HiThere /\ llm.pc = "finished") => ChunkTexts = <<HiThereText>>
    /\ (Delivered = HiThere /\ client.pc = "returned" /\ client.popped = "SUCCESS")
          => (client.ret = "true" /\ client.response = HiThereText)

\* The chunk "Hi there." was popped by the call, which has returned.
C30_Popped ==
    /\ Delivered = HiThere
    /\ ChunkTexts = <<HiThereText>>
    /\ client.pc = "returned"
    /\ client.popped = "SUCCESS"
    /\ queues["response_queue_"].queue_ = <<>>


\* ------------------------------------------------- the phoneme ring, run
\* A small ring watched by a live viewer, or the full-size ring, empty, whose
\* viewer is stalled while TTS sends StalledWrites phonemes.
RingInit ==
    /\ QInit /\ PInit /\ LInit /\ GInit
    /\ observed = Untracked
    /\ ring \in {Ring(RingSlots, RingEvents, FALSE),
                  Ring(MAX_PHONEMES, StalledWrites, TRUE)}
    /\ speech = NoSpeech
    /\ callers = [c \in Clients |-> NoCaller]
    /\ pcm = OpenPcm

RingNext ==
    \/ \E n \in 1..MaxBatch : Send(n)
    \/ Send(ring.tts.budget)
    \/ SendNext
    \/ SendCheck
    \/ SendStore
    \/ ViewerPoll
    \/ ViewerAdvance

RingSpec == RingInit /\ [][RingNext]_vars

\* ---------------------------------------------------------------- C31, C40
\* The events written and not yet read, as the indices give them.
Unread(q) == (q.write_index - q.read_index + q.MAX) % q.MAX

\* The place of slot i, counted from read_index.
FromRead(q, i) == (i - q.read_index + q.MAX) % q.MAX

\* Slot i lies in the range from read_index up to write_index.
InUnread(q, i) == FromRead(q, i) < Unread(q)

\* The events stored and not read are the events the indices give, and they
\* are fewer than the slots.
UnreadCount ==
    /\ ring.tts.stored - ring.viewer.count = Unread(ring.shm)
    /\ ring.tts.stored - ring.viewer.count <= ring.shm.MAX - 1

\* All the phonemes were handed to send_phoneme_data and the call returned.
AllSent == ring.tts.budget = 0 /\ ring.tts.pc = "idle"

\* C31: the producer never overwrites an unread event and never blocks: the
\* write that finds (write_index + 1) mod MAX_PHONEMES = read_index is dropped,
\* the call returns and the shared segment is as before; no step changes a slot
\* between read_index and write_index; the events stored and not yet read are
\* always (write_index - read_index) mod MAX_PHONEMES many and at most
\* MAX_PHONEMES - 1; with a stalled viewer the 2000 writes attempted on the
\* empty ring leave write_index at 1023.
C31_NeverOverwrites ==
    [][/\ UnreadCount'
       /\ ( /\ ring.tts.pc = "check"
            /\ ring.tts' # ring.tts
            /\ NextIdx(ring.tts.write_idx, ring.shm.MAX) = ring.shm.read_index )
          => (ring.shm' = ring.shm /\ ring.tts.pc' = "idle")
       /\ \A i \in 0..(ring.shm.MAX - 1) :
            InUnread(ring.shm, i) => ring.shm.phonemes'[i] = ring.shm.phonemes[i]
       /\ ( ring.viewer.stalled /\ AllSent' /\ ring.shm.MAX = MAX_PHONEMES )
          => ring.shm.write_index' = MAX_PHONEMES - 1
      ]_vars

\* The 2000 phonemes were attempted on the full-size ring with a stalled
\* viewer: 1023 are stored and the others were dropped.
C31_Witness ==
    /\ ring.shm.MAX = MAX_PHONEMES
    /\ ring.viewer.stalled
    /\ AllSent
    /\ ring.tts.stored = MAX_PHONEMES - 1
    /\ ring.tts.dropped = StalledWrites - (MAX_PHONEMES - 1)

\* Every field of the slot holds the phoneme with number e.
Complete(slot, e) ==
    slot.phoneme_id = e /\ slot.duration_seconds = e /\ slot.timestamp_us = e

\* C40: the producer stores only into the slot at write_index, every slot in
\* the range from read_index up to write_index holds all the fields of its
\* event, and while the viewer reads the slot at read_index, which lies below
\* the write_index it observed, the producer is not storing into that slot.
C40_NoTornRead ==
    /\ ring.tts.pc = "store" => ring.tts.write_idx = ring.shm.write_index
    /\ \A i \in 0..(ring.shm.MAX - 1) :
         InUnread(ring.shm, i) =>
           Complete(ring.shm.phonemes[i],
                    ring.viewer.count + 1 + FromRead(ring.shm, i))
    /\ ring.viewer.pc = "reading" =>
         /\ InUnread(ring.shm, ring.shm.read_index)
         /\ ~(ring.tts.pc = "store" /\ ring.tts.write_idx = ring.shm.read_index)

\* The viewer reads a slot while the producer is in the middle of a slot, on
\* a ring that has wrapped around.
C40_Witness ==
    /\ ring.viewer.pc = "reading"
    /\ ring.tts.pc = "store"
    /\ ring.tts.store \in 2..3
    /\ ring.tts.stored >= ring.shm.MAX

\* ------------------------------------------------------------ the tail fade
\* fade_and_trim_tail_ms(audio_chunk, 325, 120) in TTSProcessor::process
FadeMs == 325
FadeStrength == 120
\* Sample rates, 16-bit samples and chunk lengths of the backends of the model.
SampleRates == {0, 1, 3, 6, 10}
Samples == {-32768, 0, 7}
MaxSamples == 4

\* The chunks a backend can hand back.
AudioChunks ==
    [sample_rate : SampleRates,
     audio_data : UNION {[1..n -> Samples] : n \in 0..MaxSamples}]

\* std::llround of the non-negative num / den: halves go away from zero.
llround(num, den) == (2 * num + den) \div (2 * den)

\* The sample at place i (from 1) of a fade region of `total` samples, times
\* the gain std::pow(1 - t, 1 + fade_strength / 25) with t = i / total. The
\* gain is 0 at t = 1; elsewhere it lies strictly between 0 and 1 and the
\* product is kept as the sample with its t.
Gained(sample, i, total, fade_strength) ==
    IF i = total \/ sample = 0
    THEN 0
    ELSE [sample |-> sample, t |-> <<i, total>>,
          exponent |-> <<25 + fade_strength, 25>>]

\* fade_and_trim_tail_ms
fade_and_trim_tail_ms(m, fade_ms, fade_strength, channels) ==
    IF fade_ms <= 0 \/ m.sample_rate = 0 \/ channels <= 0
    THEN m
    ELSE LET per_ch == llround(fade_ms * m.sample_rate, 1000)
             total == per_ch * channels
             size == Len(m.audio_data) IN
         IF total = 0 \/ total >= size
         THEN [m EXCEPT !.audio_data = <<>>]
         ELSE LET start == size - total
                  faded == [k \in 1..size |->
                              IF k <= start
                              THEN m.audio_data[k]
                              ELSE Gained(m.audio_data[k], k - start, total,
                                          fade_strength)] IN
              [m EXCEPT !.audio_data = SubSeq(faded, 1, start)]

\* The texts the STT backend can hand back.
Transcripts == {<<>>, <<"h", "i">>}

\* Mutant: what the backend handed back is pushed whatever it is.
Accepted_nocheck(success, out) == TRUE

\* `if (success && !transcribed_text.empty())`,
\* `if (success && !audio_chunk.audio_data.empty())`
Accepted(success, out) == success /\ out # <<>>

\* STTProcessor::process from the return of transcribe on: the text is pushed
\* when transcribe succeeded with a text.
Transcribe(success, text) ==
    /\ speech.pc = "idle"
    /\ speech' =
         [pc |-> "done", worker |-> "STT", success |-> success, out |-> text,
          pushed |-> IF Accepted(success, text) THEN <<text>> ELSE <<>>]
    /\ UNCHANGED <<interrupt_flag, qvars, pvars, lvars, gvars, ring, callers, pcm>>

\* TTSProcessor::process from the return of speak on: the chunk is faded and
\* pushed when speak succeeded with audio; otherwise the failure is logged.
Speak(success, chunk) ==
    /\ speech.pc = "idle"
    /\ speech' =
         [pc |-> "done", worker |-> "TTS", success |-> success,
          out |-> chunk.audio_data, audio_chunk |-> chunk,
          pushed |-> IF Accepted(success, chunk.audio_data)
                     THEN <<fade_and_trim_tail_ms(chunk, FadeMs, FadeStrength, 1)>>
                     ELSE <<>>]
    /\ UNCHANGED <<interrupt_flag, qvars, pvars, lvars, gvars, ring, callers, pcm>>

\* process() has returned and is called again.
SpeakNext ==
    /\ speech.pc = "done"
    /\ speech' = NoSpeech
    /\ UNCHANGED <<interrupt_flag, qvars, pvars, lvars, gvars, ring, callers, pcm>>

FadeInit ==
    /\ QInit /\ PInit /\ LInit /\ GInit /\ TInit
    /\ observed = Untracked

FadeNext ==
    \/ \E success \in BOOLEAN, text \in Transcripts : Transcribe(success, text)
    \/ \E success \in BOOLEAN, chunk \in AudioChunks : Speak(success, chunk)
    \/ SpeakNext

FadeSpec == FadeInit /\ [][FadeNext]_vars

\* ---------------------------------------------------------------------- C33
\* The chunk has at least fade_ms x Fs / 1000 samples.
LongEnough(chunk) == Len(chunk.audio_data) * 1000 >= FadeMs * chunk.sample_rate

\* C33: for a chunk of at least fade_ms x Fs / 1000 samples (fade_ms = 325)
\* that speak returned with success, the chunk pushed ends in a sample of
\* absolute value 0, its part before the fade region is the input's, and it is
\* not empty.
C33_TailFade ==
    ( /\ speech.pc = "done"
      /\ speech.worker = "TTS"
      /\ speech.success
      /\ speech.audio_chunk.audio_data # <<>>
      /\ LongEnough(speech.audio_chunk) )
    => LET in == speech.audio_chunk.audio_data
           out == speech.pushed[1].audio_data
           N == llround(FadeMs * speech.audio_chunk.sample_rate, 1000) IN
       /\ Len(speech.pushed) = 1
       /\ out # <<>>
       /\ out[Len(out)] = 0
       /\ \A k \in 1..(Len(in) - N) : k <= Len(out) /\ out[k] = in[k]

\* The part before the fade region is what was pushed.
C33_Prefix ==
    ( /\ speech.pc = "done"
      /\ speech.worker = "TTS"
      /\ speech.success
      /\ speech.audio_chunk.audio_data # <<>>
      /\ speech.audio_chunk.sample_rate # 0
      /\ LongEnough(speech.audio_chunk) )
    => LET in == speech.audio_chunk.audio_data
           N == llround(FadeMs * speech.audio_chunk.sample_rate, 1000) IN
       /\ Len(speech.pushed) = 1
       /\ speech.pushed[1].audio_data
            = IF 0 < N /\ N < Len(in) THEN SubSeq(in, 1, Len(in) - N) ELSE <<>>

\* A chunk of exactly the fade region is pushed empty.
C33_Emptied ==
    /\ speech.pc = "done"
    /\ speech.worker = "TTS"
    /\ speech.success
    /\ Len(speech.audio_chunk.audio_data) = 3
    /\ speech.audio_chunk.sample_rate = 10
    /\ speech.pushed = <<[sample_rate |-> 10, audio_data |-> <<>>]>>

\* ---------------------------------------------------------------------- C32
\* C32: once PipelineManager::stop() has begun, and until the device is
\* closed, no step drops what was written to the device and no step takes a
\* chunk out of the audio-chunk queue other than the Audio worker's pop; the
\* device, once closed, stays closed.
C32_DrainedThenClosed ==
    [][ /\ ( ~running_["PipelineManager"] /\ alsa.handle_ = "open" )
           => /\ alsa.drops' = alsa.drops
              /\ \A c \in Items(queues["audio_output_queue_"]) :
                    \/ c \in Items(queues'["audio_output_queue_"])
                    \/ work'["Audio"] = c
        /\ alsa.handle_ = "closed" => alsa.handle_' = "closed"
      ]_vars

\* Only the flush of TTSProcessor::cleanup, and no drop, is excluded.
C32_NoDrop ==
    [][ ( ~running_["PipelineManager"] /\ alsa.handle_ = "open" )
           => alsa.drops' = alsa.drops ]_vars

\* The device is closed by the Audio worker or in its cleanup, and stays so.
C32_Closed ==
    [][ /\ alsa.handle_ = "closed" => alsa.handle_' = "closed"
        /\ alsa.handle_' # alsa.handle_ =>
             ( wpc["Audio"] = "drain" \/ pm = At("join", "Audio") ) ]_vars


\* TTSProcessor::cleanup is about to flush a queue that holds a chunk.
C32_Queued ==
    /\ pm = At("cleanup_flush", "TTS")
    /\ queues["audio_output_queue_"].queue_ # <<>>
    /\ alsa.handle_ = "open"

\* ---------------------------------------------------------------------- C34
\* C34: a control signal leaves a worker's mailbox only at the head and only
\* in the run loop's `while (check_control_signal(control_msg))`, which passes
\* it to handle_control_message and to the default handling.
C34_HandledOnce ==
    [][ \A w \in Workers :
          control_queue_'[w] # control_queue_[w]
          => \/ /\ control_queue_[w] # <<>>
                /\ control_queue_'[w] = Tail(control_queue_[w])
                /\ wpc[w] = "drain"
             \/ \E m \in ControlTypes : control_queue_'[w] = Append(control_queue_[w], m)
      ]_vars

\* The STT worker is in its interruptible sleep with a signal in its mailbox.
C34_Asleep == wpc["STT"] = "sleep" /\ control_queue_["STT"] # <<>>

\* ------------------------------------------------- exceptions out of process()
\* Where process() of worker w is inside its backend: transcribe,
\* generate_async, speak, play_audio_chunk.
ThrowsAt(w) ==
    CASE w = "STT" -> "process"
      [] w = "LLM" -> "generate"
      [] w = "TTS" -> "speak"
      [] w = "Audio" -> "play"

\* Mutant: the exception leaves run() and ends the thread.
Catch_terminate(w) == "done"

\* run(): `catch (const std::exception& e)`: the error is logged and the
\* thread sleeps 100 ms inside the loop.
Catch(w) == "caught"

\* A std::exception leaves process(): the locals of process() are destroyed
\* and the mailbox loop of this iteration is skipped.
WThrow(w) ==
    /\ wpc[w] = ThrowsAt(w)
    /\ running_[w]
    /\ wpc' = [wpc EXCEPT ![w] = Catch(w)]
    /\ work' = [work EXCEPT ![w] = NoMsg]
    /\ UNCHANGED <<interrupt_flag, queues, running_, control_queue_, alsa, pm,
                   utter, signals>>
    /\ UNCHANGED observed
    /\ UNCHANGED <<qvars, lvars, gvars, tvars>>

\* The sleep of the catch block ends: back to `while (running_)`.
WCaught(w) ==
    /\ wpc[w] = "caught"
    /\ wpc' = [wpc EXCEPT ![w] = "loop"]
    /\ UNCHANGED <<interrupt_flag, queues, running_, control_queue_, work, alsa,
                   pm, utter, signals>>
    /\ UNCHANGED observed
    /\ UNCHANGED <<qvars, lvars, gvars, tvars>>

\* The running pipeline under control signals, with backends that throw.
ThrowNext ==
    \/ ControlNext
    \/ \E w \in Workers : WThrow(w)
    \/ \E w \in Workers : WCaught(w)

ThrowSpec == Init /\ [][ThrowNext]_vars

\* ---------------------------------------------------------------------- C35
\* The step of worker w is the exception leaving process().
Thrown(w) == wpc[w] = ThrowsAt(w) /\ wpc'[w] \notin {wpc[w], "drain", "sleep",
                 "wait_not_full", "wait_not_empty", "generate", "speak", "play"}

\* C35: an exception out of process() does not end the worker: the thread
\* leaves run() only from `while (running_)` or from the mailbox loop; the
\* step in which the exception is caught leaves running_, every mailbox and
\* every queue (contents and shutdown flag) as they were; after the catch
\* block the worker is at `while (running_)` again and, while running_ is
\* true, goes on to the next process().
C35_ExceptionCaught ==
    [][ \A w \in Workers :
          /\ (wpc'[w] = "done" /\ wpc[w] # "done") => wpc[w] \in {"loop", "drain"}
          /\ Thrown(w) => /\ wpc'[w] = "caught"
                          /\ running_' = running_
                          /\ control_queue_' = control_queue_
                          /\ queues' = queues
          /\ (wpc[w] = "caught" /\ wpc'[w] # "caught")
               => wpc'[w] = "loop" /\ control_queue_'[w] = control_queue_[w]
          /\ (wpc[w] = "loop" /\ wpc'[w] # "loop" /\ running_[w])
               => wpc'[w] = "process"
      ]_vars

\* The LLM backend threw in the middle of a generation, with a signal waiting
\* in the worker's mailbox and a chunk already in the response queue.
C35_Witness ==
    /\ wpc["LLM"] = "caught"
    /\ control_queue_["LLM"] # <<>>
    /\ queues["response_queue_"].queue_ # <<>>
    /\ running_["LLM"]

\* ---------------------------------------------------------------------- C36
\* C36: when transcribe (STT) or speak (TTS) fails or hands back nothing, the
\* iteration hands nothing to push_blocking of the worker's output queue, and
\* the worker stays running.
C36_NoErrorMessage ==
    ( speech.pc = "done" /\ (~speech.success \/ speech.out = <<>>) )
    => /\ speech.pushed = <<>>
       /\ running_[speech.worker]

\* speak failed after it had written audio into the chunk.
C36_Witness ==
    /\ speech.pc = "done"
    /\ speech.worker = "TTS"
    /\ ~speech.success
    /\ speech.out # <<>>

\* ------------------------------------------------------------ PAUSE and RESUME
\* The control signals no worker handles and the run loop has no default for.
PauseTypes == {"PAUSE", "RESUME"}

\* The running pipeline under PAUSE and RESUME signals sent from outside the
\* workers.
PauseNext ==
    \/ \E w \in Workers : WLoop(w)
    \/ STTProcess
    \/ STTWake
    \/ \E w \in Workers \ {"STT"} : WProcess(w)
    \/ \E w \in Workers \ {"STT"} : WPopResume(w)
    \/ \E w \in Workers \ {"Audio"} : WPushResume(w)
    \/ \E w \in Workers : WSpuriousWake(w)
    \/ LLMGenerate
    \/ TTSSpeak
    \/ AudioPlay
    \/ \E w \in Workers : WDrain(w)
    \/ \E w \in Workers, m \in PauseTypes : SignalControl(w, m)

PauseSpec == Init /\ [][PauseNext]_vars

\* ---------------------------------------------------------------------- C37
\* Worker w takes a PAUSE or RESUME from its mailbox in the run loop.
HandlesPause(w) ==
    /\ wpc[w] = "drain"
    /\ control_queue_[w] # <<>>
    /\ Head(control_queue_[w]) \in PauseTypes
    /\ control_queue_'[w] = Tail(control_queue_[w])

\* C37: the step in which a worker handles a PAUSE or a RESUME leaves running_
\* of every worker, every queue (text, response, audio-chunk), the playback
\* device, the message each worker holds and the place of every worker as they
\* were: the worker stays in its mailbox loop and goes on as without the
\* signal; no worker ever leaves run().
C37_PauseNoOp ==
    [][ /\ \A w \in Workers :
             HandlesPause(w) => /\ running_' = running_
                                /\ queues' = queues
                                /\ alsa' = alsa
                                /\ work' = work
                                /\ wpc' = wpc
                                /\ utter' = utter
        /\ \A w \in Workers : wpc'[w] # "done"
      ]_vars

\* The TTS worker, with responses and audio chunks waiting, is about to take
\* a PAUSE from its mailbox.
C37_Witness ==
    /\ wpc["TTS"] = "drain"
    /\ control_queue_["TTS"] = <<"PAUSE">>
    /\ queues["response_queue_"].queue_ # <<>>
    /\ queues["audio_output_queue_"].queue_ # <<>>

\* ------------------------------------------------------------ the server mode
\* Chunks of one response at most.
ServerChunks == 2

\* run_server_mode: the pipeline in TEXT_ONLY mode, no client connected yet.
ServerInit ==
    /\ QInit /\ LInit /\ GInit /\ TInit
    /\ queues = [q \in QueueNames |->
                    CASE q = "text_queue_" -> SafeQueue(TextCap, FALSE)
                      [] q = "response_queue_" -> SafeQueue(ResponseCap, FALSE)
                      [] q = "audio_output_queue_" -> SafeQueue(AudioCap, TRUE)
                      [] q = "control_queue_" -> SafeQueue(ControlCap, FALSE)]
    /\ running_ = [w \in Workers \cup {"PipelineManager"} |->
                      w \in {"LLM", "PipelineManager"}]
    /\ control_queue_ = [w \in Workers |-> <<>>]
    /\ wpc = [w \in Workers |-> IF w = "LLM" THEN "loop" ELSE "not_started"]
    /\ work = [w \in Workers |-> NoMsg]
    /\ alsa = [handle_ |-> "closed", drops |-> 0]
    /\ pm = At("running", "-")
    /\ utter = 1
    /\ signals = 0
    /\ observed = Untracked

\* handle_client_with_pipeline, on its own thread, calls process_text_input:
\* `if (!running_ || !llm_processor_) return false;`
ProcessTextInput(c) ==
    /\ callers[c].pc = "idle"
    /\ callers' = IF running_["PipelineManager"] /\ wpc["LLM"] # "not_started"
                  THEN [callers EXCEPT ![c].pc = "push"]
                  ELSE [callers EXCEPT ![c].pc = "returned", ![c].ret = "false"]
    /\ UNCHANGED <<interrupt_flag, qvars, pvars, lvars, gvars, ring, speech, pcm>>

\* text_queue_->push(text_msg, text_timeout_ms): the prompt is enqueued if
\* there is room; false at the expiry of the timeout or on a queue shut down.
PushPrompt(c) ==
    LET q == queues["text_queue_"] IN
    /\ callers[c].pc = "push"
    /\ IF NotFullPred(q) /\ PushAllowed(q)
       THEN /\ queues' = [queues EXCEPT !["text_queue_"] = Enqueue(@, Msg(utter, 0))]
            /\ utter' = utter + 1
            /\ wpc' = Wake(wpc, "LLM", "wait_not_empty", "ready_not_empty")
            /\ callers' = [callers EXCEPT ![c].pc = "pop", ![c].prompt = utter]
       ELSE /\ callers' = [callers EXCEPT ![c].pc = "returned", ![c].ret = "false"]
            /\ UNCHANGED <<queues, utter, wpc>>
    /\ UNCHANGED <<interrupt_flag, running_, control_queue_, work, alsa, pm,
                   signals, observed>>
    /\ UNCHANGED <<qvars, lvars, gvars, ring, speech, pcm>>

\* response_queue_->pop(llm_response, response_timeout_ms) and the rest of
\* process_text_input: TIMEOUT at the expiry of the timeout while the queue is
\* empty, the result of the pop otherwise; then the test of the result and
\* `response = llm_response.text; return true;`.
PopResponse(c) ==
    LET q == queues["response_queue_"]
        r == IF NotEmptyPred(q, interrupt_flag)
             THEN PopResultOf(q, interrupt_flag) ELSE "TIMEOUT"
        llm_response == IF r = "SUCCESS" THEN Front(q) ELSE NoMsg IN
    /\ callers[c].pc = "pop"
    /\ IF r = "SUCCESS"
       THEN /\ queues' = [queues EXCEPT !["response_queue_"] = Dequeue(@)]
            /\ wpc' = Wake(wpc, "LLM", "wait_not_full", "ready_not_full")
       ELSE UNCHANGED <<queues, wpc>>
    /\ callers' =
         IF PopRejected(r)
         THEN [callers EXCEPT ![c].pc = "returned", ![c].popped = r,
                              ![c].llm_response = llm_response, ![c].ret = "false"]
         ELSE [callers EXCEPT ![c].pc = "returned", ![c].popped = r,
                              ![c].llm_response = llm_response, ![c].ret = "true",
                              ![c].response = llm_response]
    /\ UNCHANGED <<interrupt_flag, running_, control_queue_, work, alsa, pm,
                   utter, signals, observed>>
    /\ UNCHANGED <<qvars, lvars, gvars, ring, speech, pcm>>

\* The server in text-only mode: each client thread makes one call.
ServerNext ==
    \/ \E c \in Clients : ProcessTextInput(c)
    \/ \E c \in Clients : PushPrompt(c)
    \/ \E c \in Clients : PopResponse(c)
    \/ WLoop("LLM")
    \/ WProcess("LLM")
    \/ WPopResume("LLM")
    \/ WPushResume("LLM")
    \/ WSpuriousWake("LLM")
    \/ WDrain("LLM")
    \/ Generate(ServerChunks)

ServerSpec == ServerInit /\ [][ServerNext]_vars

\* ---------------------------------------------------------------------- C38
\* C38: the chunk a call of process_text_input pops was generated for the
\* prompt that call pushed, and a call that returns true returns such a chunk.
C38_OwnResponse ==
    \A c \in Clients :
       callers[c].pc = "returned" =>
         /\ callers[c].popped = "SUCCESS"
              => callers[c].llm_response[1] = callers[c].prompt
         /\ callers[c].ret = "true"
              => /\ callers[c].response[2] > 0
                 /\ callers[c].response[1] = callers[c].prompt

\* A call has popped a chunk that was generated for the other caller's prompt.
C38_CrossTalk ==
    \E c \in Clients :
       /\ callers[c].pc = "returned"
       /\ callers[c].popped = "SUCCESS"
       /\ callers[c].llm_response[1] # callers[c].prompt

\* ------------------------------------------------- the playback device in use
\* Thread u moves on.
To(u, pos) == [pcm EXCEPT !.at[u] = pos]

\* interrupt_audio_immediately returns: into handle_control_message of the
\* TTS worker, or into TTSProcessor::cleanup.
AfterInterrupt(u) == IF u = "TTS" THEN "run" ELSE "shutdown_queue"

\* close_audio_device returns: into the mailbox loop of the Audio worker, or
\* to the end of stop().
AfterClose(u) == IF u = "Audio" THEN "mailbox" ELSE "stopped"

\* Mutant: stop() does not wait for the thread.
Joined_nowait(w) == TRUE

\* BaseProcessor::stop(): thread_.join() returns when the thread has left run().
Joined(w) == pcm.at[w] = "done"

\* The TTS worker handles an INTERRUPT: interrupt_current_speech() calls
\* interrupt_audio_immediately().
TTSInterrupt ==
    /\ pcm.at["TTS"] = "run"
    /\ pcm' = To("TTS", "interrupt")
    /\ UNCHANGED <<interrupt_flag, qvars, pvars, lvars, gvars, ring, speech, callers>>

\* The TTS worker leaves run() once its stop() has been called.
TTSExit ==
    /\ pcm.at["TTS"] = "run"
    /\ ~pcm.running_["TTS"]
    /\ pcm' = To("TTS", "done")
    /\ UNCHANGED <<interrupt_flag, qvars, pvars, lvars, gvars, ring, speech, callers>>

\* interrupt_audio_immediately, after the flush: `if (alsa_handle_)`.
InterruptTest(u) ==
    /\ pcm.at[u] = "interrupt"
    /\ pcm' = To(u, IF pcm.alsa_handle_ = "set" THEN "drop_call" ELSE AfterInterrupt(u))
    /\ UNCHANGED <<interrupt_flag, qvars, pvars, lvars, gvars, ring, speech, callers>>

\* snd_pcm_drop(alsa_handle_) is entered.
InterruptDrop(u) ==
    /\ pcm.at[u] = "drop_call"
    /\ pcm' = To(u, "in_drop")
    /\ UNCHANGED <<interrupt_flag, qvars, pvars, lvars, gvars, ring, speech, callers>>

\* snd_pcm_drop has returned and snd_pcm_prepare(alsa_handle_) is entered.
InterruptPrepare(u) ==
    /\ pcm.at[u] = "in_drop"
    /\ pcm' = To(u, "in_prepare")
    /\ UNCHANGED <<interrupt_flag, qvars, pvars, lvars, gvars, ring, speech, callers>>

\* snd_pcm_prepare has returned.
InterruptReturn(u) ==
    /\ pcm.at[u] = "in_prepare"
    /\ pcm' = To(u, AfterInterrupt(u))
    /\ UNCHANGED <<interrupt_flag, qvars, pvars, lvars, gvars, ring, speech, callers>>

\* run() of the Audio worker: `while (running_)`.
AudioLoop ==
    /\ pcm.at["Audio"] = "loop"
    /\ pcm' = To("Audio", IF pcm.running_["Audio"] THEN "process" ELSE "done")
    /\ UNCHANGED <<interrupt_flag, qvars, pvars, lvars, gvars, ring, speech, callers>>

\* AudioOutputProcessor::process: pop_blocking hands back a chunk, which is
\* played, or process() returns without one.
AudioProcess ==
    /\ pcm.at["Audio"] \in {"run", "process"}
    /\ \E next \in {"play", "mailbox"} : pcm' = To("Audio", next)
    /\ UNCHANGED <<interrupt_flag, qvars, pvars, lvars, gvars, ring, speech, callers>>

\* play_audio_chunk: `if (chunk.empty() || !alsa_handle_) return;`
PlayTest ==
    /\ pcm.at["Audio"] = "play"
    /\ pcm' = To("Audio", IF pcm.alsa_handle_ = "set" THEN "write_call" ELSE "mailbox")
    /\ UNCHANGED <<interrupt_flag, qvars, pvars, lvars, gvars, ring, speech, callers>>

\* snd_pcm_writei(alsa_handle_, ...) is entered.
PlayWrite ==
    /\ pcm.at["Audio"] = "write_call"
    /\ pcm' = To("Audio", "in_write")
    /\ UNCHANGED <<interrupt_flag, qvars, pvars, lvars, gvars, ring, speech, callers>>

\* snd_pcm_writei has returned: frames are left to write, or none.
PlayWritten ==
    /\ pcm.at["Audio"] = "in_write"
    /\ \E next \in {"write_call", "mailbox"} : pcm' = To("Audio", next)
    /\ UNCHANGED <<interrupt_flag, qvars, pvars, lvars, gvars, ring, speech, callers>>

\* run() of the Audio worker: `while (check_control_signal(control_msg))`;
\* handle_control_message(SHUTDOWN) calls close_audio_device().
AudioMailbox ==
    /\ pcm.at["Audio"] = "mailbox"
    /\ pcm' = IF pcm.control_queue_ = <<>>
              THEN To("Audio", "loop")
              ELSE [pcm EXCEPT !.control_queue_ = Tail(@), !.at["Audio"] = "close"]
    /\ UNCHANGED <<interrupt_flag, qvars, pvars, lvars, gvars, ring, speech, callers>>

\* close_audio_device: `if (alsa_handle_)`, then snd_pcm_drain is entered.
CloseTest(u) ==
    /\ pcm.at[u] = "close"
    /\ pcm' = To(u, IF pcm.alsa_handle_ = "set" THEN "in_drain" ELSE AfterClose(u))
    /\ UNCHANGED <<interrupt_flag, qvars, pvars, lvars, gvars, ring, speech, callers>>

\* snd_pcm_drain has returned; snd_pcm_close(alsa_handle_).
CloseDevice(u) ==
    /\ pcm.at[u] = "in_drain"
    /\ pcm' = [pcm EXCEPT !.device = "closed", !.at[u] = "clear"]
    /\ UNCHANGED <<interrupt_flag, qvars, pvars, lvars, gvars, ring, speech, callers>>

\* alsa_handle_ = nullptr
CloseClear(u) ==
    /\ pcm.at[u] = "clear"
    /\ pcm' = [pcm EXCEPT !.alsa_handle_ = "null", !.at[u] = AfterClose(u)]
    /\ UNCHANGED <<interrupt_flag, qvars, pvars, lvars, gvars, ring, speech, callers>>

\* stop() of the TTS processor: running_ = false, signal_control(SHUTDOWN).
StopTTS ==
    /\ pcm.at["stop"] = "idle"
    /\ pcm' = [pcm EXCEPT !.running_["TTS"] = FALSE, !.at["stop"] = "join_tts"]
    /\ UNCHANGED <<interrupt_flag, qvars, pvars, lvars, gvars, ring, speech, callers>>

\* thread_.join() of the TTS thread, then TTSProcessor::cleanup(), which
\* begins with interrupt_audio_immediately().
JoinTTS ==
    /\ pcm.at["stop"] = "join_tts"
    /\ Joined("TTS")
    /\ pcm' = To("stop", "interrupt")
    /\ UNCHANGED <<interrupt_flag, qvars, pvars, lvars, gvars, ring, speech, callers>>

\* TTSProcessor::cleanup(): audio_output_queue_->shutdown(), then stop() of
\* the Audio processor: running_ = false, signal_control(SHUTDOWN).
StopAudio ==
    /\ pcm.at["stop"] = "shutdown_queue"
    /\ pcm' = [pcm EXCEPT !.running_["Audio"] = FALSE,
                          !.control_queue_ = Append(@, "SHUTDOWN"),
                          !.at["stop"] = "join_audio"]
    /\ UNCHANGED <<interrupt_flag, qvars, pvars, lvars, gvars, ring, speech, callers>>

\* thread_.join() of the Audio thread, then AudioOutputProcessor::cleanup(),
\* which calls close_audio_device().
JoinAudio ==
    /\ pcm.at["stop"] = "join_audio"
    /\ Joined("Audio")
    /\ pcm' = To("stop", "close")
    /\ UNCHANGED <<interrupt_flag, qvars, pvars, lvars, gvars, ring, speech, callers>>

DeviceInit ==
    /\ QInit /\ PInit /\ LInit /\ GInit /\ TInit
    /\ observed = Untracked

\* The TTS worker under INTERRUPT signals, the Audio worker playing, and
\* stop().
DeviceNext ==
    \/ TTSInterrupt
    \/ TTSExit
    \/ \E u \in {"TTS", "stop"} : InterruptTest(u)
    \/ \E u \in {"TTS", "stop"} : InterruptDrop(u)
    \/ \E u \in {"TTS", "stop"} : InterruptPrepare(u)
    \/ \E u \in {"TTS", "stop"} : InterruptReturn(u)
    \/ AudioLoop
    \/ AudioProcess
    \/ PlayTest
    \/ PlayWrite
    \/ PlayWritten
    \/ AudioMailbox
    \/ \E u \in {"Audio", "stop"} : CloseTest(u)
    \/ \E u \in {"Audio", "stop"} : CloseDevice(u)
    \/ \E u \in {"Audio", "stop"} : CloseClear(u)
    \/ StopTTS
    \/ JoinTTS
    \/ StopAudio
    \/ JoinAudio

DeviceSpec == DeviceInit /\ [][DeviceNext]_vars

\* ---------------------------------------------------------------------- C39
\* Thread u is about to enter or is inside snd_pcm_drop, snd_pcm_prepare or
\* snd_pcm_writei with the handle it read.
UsesHandle(u) ==
    pcm.at[u] \in {"drop_call", "in_drop", "in_prepare", "write_call", "in_write"}

\* C39: while the device is closed no thread is inside, or about to issue, a
\* drop, prepare or write on the handle, and while a thread drains and closes
\* the device no other thread is inside one: the handle is not used after the
\* close, and not closed under a thread that uses it.
C39_NoUseAfterClose ==
    /\ pcm.device = "closed" => \A u \in Users : ~UsesHandle(u)
    /\ \A u \in Users :
         pcm.at[u] \in {"in_drain", "clear"}
         => \A v \in Users \ {u} :
              ~UsesHandle(v) /\ pcm.at[v] \notin {"in_drain", "clear"}

\* The Audio worker has closed the device on SHUTDOWN, after the thread in
\* stop() had dropped the playback in TTSProcessor::cleanup.
C39_Witness ==
    /\ pcm.device = "closed"
    /\ pcm.at["Audio"] = "clear"
    /\ pcm.at["stop"] = "join_audio"
    /\ pcm.at["TTS"] = "done"

\* The thread in stop() is inside snd_pcm_drop while the Audio worker is
\* inside snd_pcm_writei.
C39_Concurrent == pcm.at["stop"] = "in_drop" /\ pcm.at["Audio"] = "in_write"

=========================================================================
